---- MODULE Spec2Model ----
(***************************************************************************)
(* A model of the statement-ingestion pipeline of                          *)
(* src/pdf/pdf_statement_processor.py (PdfStatementProcessor) and of its   *)
(* collaborators (ArtifactStorage, tokenization).                          *)
(*                                                                         *)
(* Conventions.                                                            *)
(*  - A Python str is a sequence of one-character strings, wrapped as      *)
(*    Str(<<...>>); None is the record None; a Decimal is Dec(v) with v    *)
(*    the value in thousandths (so 500.00 is Dec(500000)); a date is       *)
(*    Date(y, m, d).                                                       *)
(*  - hashlib digests are not computed: a digest is the tagged preimage    *)
(*    (two digests are equal exactly when their preimages are), so what    *)
(*    the model decides is WHAT is hashed, never the collision resistance  *)
(*    of sha1/sha256.                                                      *)
(***************************************************************************)
EXTENDS Integers, Sequences, FiniteSets, TLC

(***************************************************************************)
(* Values                                                                  *)
(***************************************************************************)
None == [k |-> "none"]

Dec(v) == [k |-> "dec", v |-> v]

Str(s) == [k |-> "str", s |-> s]

Date(y, m, d) == [k |-> "date", y |-> y, m |-> m, d |-> d]

IsDec(x) == x.k = "dec"

IsStr(x) == x.k = "str"

IsDate(x) == x.k = "date"

Num(n) == [k |-> "int", v |-> n]

IsNum(x) == x.k = "int"

\* Python truthiness of an Optional[str]: None and "" are falsy.
TruthyStr(x) == IsStr(x) /\ Len(x.s) > 0

\* Python truthiness of an Optional[Decimal]: None and zero are falsy.
TruthyDec(x) == IsDec(x) /\ x.v # 0

(***************************************************************************)
(* Characters                                                              *)
(***************************************************************************)
Digits == <<"0", "1", "2", "3", "4", "5", "6", "7", "8", "9">>

UpperChars == <<"A", "B", "C", "D", "E", "F", "G", "H", "I", "J", "K", "L", "M",
                "N", "O", "P", "Q", "R", "S", "T", "U", "V", "W", "X", "Y", "Z">>

LowerChars == <<"a", "b", "c", "d", "e", "f", "g", "h", "i", "j", "k", "l", "m",
                "n", "o", "p", "q", "r", "s", "t", "u", "v", "w", "x", "y", "z">>

Range(f) == {f[i] : i \in DOMAIN f}

IsDigit(c) == c \in Range(Digits)

IsUpper(c) == c \in Range(UpperChars)

IsLetter(c) == c \in Range(UpperChars) \cup Range(LowerChars)

\* \s of Python's re on the characters the model uses.
IsSpace(c) == c \in {" ", "\n", "\t"}

\* \w of Python's re.
IsWordChar(c) == IsLetter(c) \/ IsDigit(c) \/ c = "_"

DigitVal(c) == (CHOOSE i \in DOMAIN Digits : Digits[i] = c) - 1

LowerChar(c) == IF IsUpper(c) THEN LowerChars[CHOOSE i \in DOMAIN UpperChars : UpperChars[i] = c] ELSE c

\* str.lower()
Lower(s) == [i \in DOMAIN s |-> LowerChar(s[i])]

(***************************************************************************)
(* String helpers                                                          *)
(***************************************************************************)
HasChar(s, c) == \E i \in DOMAIN s : s[i] = c

CountChar(s, c) == Cardinality({i \in DOMAIN s : s[i] = c})

\* str.rfind(c), with 0 for "not found" (Python: -1); only compared.
RFind(s, c) == IF HasChar(s, c) THEN CHOOSE i \in DOMAIN s : s[i] = c /\ \A j \in DOMAIN s : s[j] = c => j <= i ELSE 0

RemoveChars(s, S) == SelectSeq(s, LAMBDA c : c \notin S)

\* sub occurs in s at position i.
OccursAt(s, sub, i) == i >= 1 /\ i + Len(sub) - 1 <= Len(s) /\ \A j \in 1..Len(sub) : s[i + j - 1] = sub[j]

\* Python's "sub in s".
Contains(s, sub) == \E i \in 1..(Len(s) + 1) : OccursAt(s, sub, i)

\* re.search(r"\bsub\b", s) for a sub made of word characters.
ContainsWord(s, sub) == \E i \in 1..Len(s) : /\ OccursAt(s, sub, i)
                                            /\ (i = 1 \/ ~IsWordChar(s[i - 1]))
                                            /\ (i + Len(sub) > Len(s) \/ ~IsWordChar(s[i + Len(sub)]))

RECURSIVE LStrip(_, _)
LStrip(s, S) == IF s # <<>> /\ Head(s) \in S THEN LStrip(Tail(s), S) ELSE s

RECURSIVE RStrip(_, _)
RStrip(s, S) == IF s # <<>> /\ s[Len(s)] \in S THEN RStrip(SubSeq(s, 1, Len(s) - 1), S) ELSE s

\* str.strip(chars); str.strip() is Strip(s, Whitespace).
Strip(s, S) == RStrip(LStrip(s, S), S)

Whitespace == {" ", "\n", "\t"}

\* re.sub(r"\s+", " ", s): every run of whitespace becomes one blank.
RECURSIVE CollapseSpaces(_)
CollapseSpaces(s) == IF s = <<>> THEN <<>>
                     ELSE IF IsSpace(Head(s))
                          THEN <<" ">> \o CollapseSpaces(LStrip(s, Whitespace))
                          ELSE <<Head(s)>> \o CollapseSpaces(Tail(s))

\* str.replace(a, b) for one-character a and a (possibly empty) sequence b.
RECURSIVE ReplaceChar(_, _, _)
ReplaceChar(s, a, b) == IF s = <<>> THEN <<>>
                        ELSE (IF Head(s) = a THEN b ELSE <<Head(s)>>) \o ReplaceChar(Tail(s), a, b)

\* The position after the whitespace-delimited word that starts at p.
RECURSIVE WordEnd(_, _)
WordEnd(s, p) == IF p > Len(s) \/ IsSpace(s[p]) THEN p ELSE WordEnd(s, p + 1)

\* The position after the whitespace run that starts at p.
RECURSIVE SpaceEnd(_, _)
SpaceEnd(s, p) == IF p > Len(s) \/ ~IsSpace(s[p]) THEN p ELSE SpaceEnd(s, p + 1)

\* The position of the first c of s at or after i, Len(s) + 1 when there is none.
RECURSIVE Find(_, _, _)
Find(s, c, i) == IF i > Len(s) \/ s[i] = c THEN i ELSE Find(s, c, i + 1)

\* The words of s from position p, which is past the end or on a non-blank.
RECURSIVE WordsFrom(_, _)
WordsFrom(s, p) == IF p > Len(s) THEN <<>>
                   ELSE <<SubSeq(s, p, WordEnd(s, p) - 1)>> \o WordsFrom(s, SpaceEnd(s, WordEnd(s, p)))

\* str.split() on whitespace: the non-empty words of s.
SplitWords(s) == WordsFrom(s, SpaceEnd(s, 1))

\* The lines of s from position i.
RECURSIVE LinesFrom(_, _)
LinesFrom(s, i) == IF i > Len(s) THEN <<>>
                   ELSE <<SubSeq(s, i, Find(s, "\n", i) - 1)>> \o LinesFrom(s, Find(s, "\n", i) + 1)

\* str.splitlines() on "\n".
SplitLines(s) == LinesFrom(s, 1)

\* " ".join(parts)
RECURSIVE JoinWith(_, _)
JoinWith(parts, sep) == IF parts = <<>> THEN <<>>
                        ELSE IF Len(parts) = 1 THEN parts[1]
                        ELSE parts[1] \o sep \o JoinWith(Tail(parts), sep)

AllDigits(s) == \A i \in DOMAIN s : IsDigit(s[i])

RECURSIVE DigitsToNat(_)
DigitsToNat(s) == IF s = <<>> THEN 0 ELSE 10 * DigitsToNat(SubSeq(s, 1, Len(s) - 1)) + DigitVal(s[Len(s)])

(***************************************************************************)
(* Header standardisation (normalize_rows helpers)                         *)
(***************************************************************************)
\* The synonyms dictionary of _standardize_header_token: <<text, canonical name>>.
synonyms ==
    {<<<<"d", "a", "t", "e">>, "date">>,
     <<<<"v", "a", "l", "u", "e", " ", "d", "a", "t", "e">>, "date">>,
     <<<<"t", "r", "a", "n", "s", "a", "c", "t", "i", "o", "n", " ", "d", "a", "t", "e">>, "date">>,
     <<<<"p", "o", "s", "t", "i", "n", "g", " ", "d", "a", "t", "e">>, "date">>,
     <<<<"d", "e", "s", "c", "r", "i", "p", "t", "i", "o", "n">>, "description">>,
     <<<<"d", "e", "t", "a", "i", "l", "s">>, "description">>,
     <<<<"n", "a", "r", "r", "a", "t", "i", "o", "n">>, "description">>,
     <<<<"p", "a", "r", "t", "i", "c", "u", "l", "a", "r", "s">>, "description">>,
     <<<<"r", "e", "m", "a", "r", "k", "s">>, "description">>,
     <<<<"d", "e", "b", "i", "t">>, "debit">>,
     <<<<"w", "i", "t", "h", "d", "r", "a", "w", "a", "l">>, "debit">>,
     <<<<"d", "r">>, "debit">>,
     <<<<"c", "r", "e", "d", "i", "t">>, "credit">>,
     <<<<"d", "e", "p", "o", "s", "i", "t">>, "credit">>,
     <<<<"c", "r">>, "credit">>,
     <<<<"a", "m", "o", "u", "n", "t">>, "amount">>,
     <<<<"t", "r", "a", "n", "s", "a", "c", "t", "i", "o", "n", " ", "a", "m", "o", "u", "n", "t">>, "amount">>,
     <<<<"b", "a", "l", "a", "n", "c", "e">>, "balance">>,
     <<<<"r", "u", "n", "n", "i", "n", "g", " ", "b", "a", "l", "a", "n", "c", "e">>, "balance">>,
     <<<<"a", "v", "a", "i", "l", "a", "b", "l", "e", " ", "b", "a", "l", "a", "n", "c", "e">>, "balance">>,
     <<<<"c", "u", "r", "r", "e", "n", "c", "y">>, "currency">>}

\* The canonical name of a stripped, lower-cased, blank-collapsed header text:
\* the exact synonym first, then the substring rules; "" for Python's None.
StandardName(t) ==
    IF \E p \in synonyms : p[1] = t THEN (CHOOSE p \in synonyms : p[1] = t)[2]
    ELSE IF Contains(t, <<"d", "a", "t", "e">>) THEN "date"
    ELSE IF Contains(t, <<"n", "a", "r", "r", "a", "t", "i", "o", "n">>) \/ Contains(t, <<"d", "e", "t", "a", "i", "l", "s">>) \/ Contains(t, <<"d", "e", "s", "c", "r">>) THEN "description"
    ELSE IF ContainsWord(t, <<"d", "r">>) \/ Contains(t, <<"d", "e", "b", "i", "t">>) \/ Contains(t, <<"w", "i", "t", "h", "d", "r", "a", "w">>) THEN "debit"
    ELSE IF ContainsWord(t, <<"c", "r">>) \/ Contains(t, <<"c", "r", "e", "d", "i", "t">>) \/ Contains(t, <<"d", "e", "p", "o", "s", "i", "t">>) THEN "credit"
    ELSE IF Contains(t, <<"a", "m", "o", "u", "n", "t">>) THEN "amount"
    ELSE IF Contains(t, <<"b", "a", "l", "a", "n", "c", "e">>) THEN "balance"
    ELSE IF Contains(t, <<"c", "u", "r", "r", "e", "n", "c", "y">>) THEN "currency"
    ELSE ""

\* _standardize_header_token(token), token an Optional[str]; the result is a
\* canonical column name or "" for Python's None.
_standardize_header_token(token) ==
    IF ~IsStr(token) THEN "" ELSE StandardName(CollapseSpaces(Lower(Strip(token.s, Whitespace))))

\* A header is accepted only with a date column and one of amount/debit/credit/description.
MinimalHeader(values) == "date" \in values /\ values \cap {"amount", "debit", "credit", "description"} # {}

\* The mapping column index -> canonical name from the names of the columns
\* ("" for a column without one), as a function on the mapped (1-based) column
\* indices; the empty function for {}.
MappingOf(names) ==
    IF MinimalHeader({names[i] : i \in DOMAIN names} \ {""})
    THEN [i \in {j \in DOMAIN names : names[j] # ""} |-> names[i]]
    ELSE [i \in {} |-> ""]

\* _detect_header_mapping(header_row)
_detect_header_mapping(header_row) ==
    MappingOf([i \in DOMAIN header_row |-> _standardize_header_token(header_row[i])])

(***************************************************************************)
(* Amount parsing                                                          *)
(***************************************************************************)
\* str.split(c) for a one-character separator, from position i.
RECURSIVE SplitFrom(_, _, _)
SplitFrom(s, c, i) == <<SubSeq(s, i, Find(s, c, i) - 1)>>
                      \o (IF Find(s, c, i) > Len(s) THEN <<>> ELSE SplitFrom(s, c, Find(s, c, i) + 1))

SplitOn(s, c) == SplitFrom(s, c, 1)

\* The quantum of the model's Decimals: one unit is 0.001.
RECURSIVE Pow10(_)
Pow10(n) == IF n = 0 THEN 1 ELSE 10 * Pow10(n - 1)

FracDigits == 3

Unit == Pow10(FracDigits)

\* The fractional digits of "digits[.digits]" split at ".".
FracOf(parts) == IF Len(parts) = 2 THEN parts[2] ELSE <<>>

\* Decimal() of the unsigned digits split at "."; None stands for
\* InvalidOperation.  At most FracDigits fractional digits are representable.
DecimalParts(negative, parts) ==
    IF \/ Len(parts) > 2
       \/ ~AllDigits(parts[1]) \/ ~AllDigits(FracOf(parts))
       \/ Len(parts[1]) + Len(FracOf(parts)) = 0
       \/ Len(FracOf(parts)) > FracDigits
    THEN None
    ELSE Dec((IF negative THEN -1 ELSE 1)
             * (DigitsToNat(parts[1]) * Unit + DigitsToNat(FracOf(parts)) * Pow10(FracDigits - Len(FracOf(parts)))))

\* Decimal(s) for a stripped s in the plain notation [sign] digits [. digits].
DecimalStripped(s) ==
    DecimalParts(s # <<>> /\ Head(s) = "-",
                 SplitOn(IF s # <<>> /\ Head(s) \in {"-", "+"} THEN Tail(s) ELSE s, "."))

\* Decimal(s0)
DecimalOf(s0) == DecimalStripped(Strip(s0, Whitespace))

\* [A-Za-z] and the currency symbols removed before parsing.
CurrencyChars == Range(UpperChars) \cup Range(LowerChars) \cup {"$"}

\* re.search(r"(^|\s)-", s)
HasLeadingMinus(s) == \E i \in DOMAIN s : s[i] = "-" /\ (i = 1 \/ IsSpace(s[i - 1]))

\* The sign detection of _parse_amount: parentheses, an explicit sign, a DR suffix.
\* The CR branch assigns is_negative to itself.
AmountIsNegative(s) == \/ (HasChar(s, "(") /\ HasChar(s, ")"))
                       \/ HasLeadingMinus(s)
                       \/ ContainsWord(Lower(s), <<"d", "r">>)

\* re.search(r"\d+<a>\d{3}<b>\d{2}$", cand)
EndsGrouped(cand, a, b) ==
    /\ Len(cand) >= 8
    /\ AllDigits(SubSeq(cand, Len(cand) - 1, Len(cand))) /\ cand[Len(cand) - 2] = b
    /\ AllDigits(SubSeq(cand, Len(cand) - 5, Len(cand) - 3)) /\ cand[Len(cand) - 6] = a
    /\ IsDigit(cand[Len(cand) - 7])

\* "," in cand and "." in cand and cand.rfind(a) > cand.rfind(b)
LastIs(cand, a, b) == HasChar(cand, ",") /\ HasChar(cand, ".") /\ RFind(cand, a) > RFind(cand, b)

\* The Babel branch of _parse_amount on the candidate string: what it hands to
\* Decimal(), or None when no rule applies.
BabelNormalized(cand) ==
    IF EndsGrouped(cand, ".", ",") \/ LastIs(cand, ",", ".")
    THEN Str(ReplaceChar(ReplaceChar(cand, ".", <<>>), ",", <<".">>))
    ELSE IF EndsGrouped(cand, ",", ".") \/ LastIs(cand, ".", ",")
    THEN Str(ReplaceChar(cand, ",", <<>>))
    ELSE IF CountChar(cand, ",") = 1 /\ ~HasChar(cand, ".")
    THEN Str(ReplaceChar(cand, ",", <<".">>))
    ELSE IF CountChar(cand, ".") = 1 /\ ~HasChar(cand, ",")
    THEN Str(cand)
    ELSE None

\* Decimal(normalized), value staying None when there is nothing to parse or
\* Decimal() raises.
BabelDecimal(normalized) == IF IsStr(normalized) THEN DecimalOf(normalized.s) ELSE None

BabelValue(cand) == BabelDecimal(BabelNormalized(cand))

\* The legacy branch of _parse_amount on s_clean.
LegacyDecimal(s_clean) == IF s_clean \in {<<>>, <<"-">>, <<".">>} THEN None ELSE DecimalOf(s_clean)

LegacyValue(s_wo_ccy) == LegacyDecimal(Strip(RemoveChars(s_wo_ccy, {",", " ", "(", ")"}), Whitespace))

\* "if value is None": the legacy branch runs when the Babel branch gave nothing.
ValueOf(first, s_wo_ccy) == IF IsDec(first) THEN first ELSE LegacyValue(s_wo_ccy)

\* "if is_negative: value = Decimal(0) - value"
Signed(value, is_negative) ==
    IF ~IsDec(value) THEN None ELSE IF is_negative THEN Dec(0 - value.v) ELSE value

\* The body of _parse_amount on s_wo_ccy, s with the letters and currency
\* symbols removed.
AmountOfText(s, s_wo_ccy, babel) ==
    Signed(ValueOf(IF babel THEN BabelValue(RemoveChars(s_wo_ccy, {"(", ")"} \cup Whitespace)) ELSE None, s_wo_ccy),
           AmountIsNegative(s))

\* _parse_amount(text, currency_hint) with _HAVE_BABEL = babel; text an Optional[str].
ParseAmountWith(text, babel) ==
    IF ~TruthyStr(text) THEN None ELSE AmountOfText(text.s, RemoveChars(text.s, CurrencyChars), babel)

(***************************************************************************)
(* Date parsing                                                            *)
(***************************************************************************)
IsLeap(y) == (y % 4 = 0 /\ y % 100 # 0) \/ y % 400 = 0

DaysIn(y, m) == IF m = 2 THEN (IF IsLeap(y) THEN 29 ELSE 28)
                ELSE IF m \in {4, 6, 9, 11} THEN 30 ELSE 31

\* %y of strptime: 69..99 are 19xx, 00..68 are 20xx.
TwoDigitYear(n) == IF n >= 69 THEN 1900 + n ELSE 2000 + n

\* The field of the directive kind among the three fields f.
FieldOf(f, kinds, kind) == f[CHOOSE i \in 1..3 : kinds[i] = kind]

\* A field fits its directive: digits only, %Y four of them, %y two, else one or two.
OkField(field, kind) ==
    /\ field # <<>> /\ AllDigits(field)
    /\ CASE kind = "Y" -> Len(field) = 4
         [] kind = "y" -> Len(field) = 2
         [] OTHER -> Len(field) \in {1, 2}

YearOf(f, kinds) == IF "Y" \in Range(kinds) THEN DigitsToNat(FieldOf(f, kinds, "Y"))
                    ELSE TwoDigitYear(DigitsToNat(FieldOf(f, kinds, "y")))

\* datetime(y, m, d).date(), None for ValueError.
DateOf(y, m, d) == IF m \notin 1..12 \/ y < 1 THEN None
                   ELSE IF d \notin 1..DaysIn(y, m) THEN None
                   ELSE Date(y, m, d)

FieldsDate(f, kinds) ==
    IF Len(f) # 3 \/ ~(\A i \in 1..3 : OkField(f[i], kinds[i])) THEN None
    ELSE DateOf(YearOf(f, kinds), DigitsToNat(FieldOf(f, kinds, "m")), DigitsToNat(FieldOf(f, kinds, "d")))

\* One strptime format on s: sep is the separator, kinds the three directives
\* in order ("d", "m", "Y" or "y").  None stands for ValueError.
StrpTime(s, sep, kinds) == FieldsDate(SplitOn(s, sep), kinds)

\* The numeric candidates of _parse_date, in the order they are tried.
candidates == << <<"/", <<"d", "m", "Y">> >>, <<"-", <<"d", "m", "Y">> >>, <<".", <<"d", "m", "Y">> >>,
                 <<"/", <<"m", "d", "Y">> >>, <<"-", <<"m", "d", "Y">> >>,
                 <<"-", <<"Y", "m", "d">> >>, <<"/", <<"Y", "m", "d">> >>,
                 <<"/", <<"d", "m", "y">> >>, <<"/", <<"m", "d", "y">> >>, <<"-", <<"y", "m", "d">> >> >>

\* x unless it is None, then y.
OrElse(x, y) == IF x # None THEN x ELSE y

\* "for fmt in candidates": the first format, from the i-th on, that parses s.
RECURSIVE FormatFrom(_, _)
FormatFrom(s, i) == IF i > Len(candidates) THEN None
                    ELSE OrElse(StrpTime(s, candidates[i][1], candidates[i][2]), FormatFrom(s, i + 1))

FirstFormat(s) == FormatFrom(s, 1)

\* The three fields f of a word split at its separators have the shape of a
\* date token.
DateShape(f) ==
    /\ Len(f) = 3
    /\ AllDigits(f[1]) /\ AllDigits(f[2]) /\ AllDigits(f[3])
    /\ \/ (Len(f[1]) = 4 /\ Len(f[2]) \in {1, 2} /\ Len(f[3]) \in {1, 2})
       \/ (Len(f[1]) \in {1, 2} /\ Len(f[2]) \in {1, 2} /\ Len(f[3]) \in {2, 3, 4})

\* \d{4}[-/]\d{1,2}[-/]\d{1,2} | \d{1,2}[-/]\d{1,2}[-/]\d{2,4} matched on a whole word.
IsDateToken(w) == DateShape(SplitOn(ReplaceChar(w, "/", <<"-">>), "-"))

\* The index of the first date token among words from the i-th on, or 0.
RECURSIVE DateWordFrom(_, _)
DateWordFrom(words, i) == IF i > Len(words) THEN 0
                          ELSE IF IsDateToken(words[i]) THEN i
                          ELSE DateWordFrom(words, i + 1)

\* "Attempt to extract a date token inside longer strings", i being the index
\* of the token among the words.
InnerDate(words, i) == IF i = 0 \/ Len(words) = 1 THEN None ELSE FirstFormat(words[i])

DateOfStripped(s, words) == OrElse(FirstFormat(s), InnerDate(words, DateWordFrom(words, 1)))

\* _parse_date(text): the numeric formats, then the date token found inside a
\* longer string (the month-name formats need letters in a fixed English shape
\* and are not modelled; the inputs of the model hold no such dates).
_parse_date(text) ==
    IF ~TruthyStr(text) THEN None
    ELSE DateOfStripped(Strip(text.s, Whitespace), SplitWords(Strip(text.s, Whitespace)))

\* _looks_like_date(text)
_looks_like_date(text) == TruthyStr(text) /\ IsDateToken(Strip(text.s, Whitespace))

\* _looks_like_amount(text): re.search of the amount token, which any digit satisfies.
_looks_like_amount(text) == TruthyStr(text) /\ \E i \in DOMAIN text.s : IsDigit(text.s[i])

(***************************************************************************)
(* Configuration and environment (src/pdf/config.py and the optional       *)
(* imports), fixed for one processor instance.                             *)
(***************************************************************************)
VARIABLES
    runs,            \* process_pdf calls running side by side on one storage, by call number
    result_file,     \* ArtifactStorage: result.json of the document those calls work on
    ocr_section,     \* extract: where each page worker stands inside 'with self._ocr_semaphore'
    pools_built,     \* every ProcessPoolExecutor constructed so far: the pages whose job it was given
    unit_call,       \* a method of the processor called on its own: its argument and its value
    intake,          \* process_pdf_file: the position and locals of the file-level call
    parser_registry, \* self.parser_registry.parsers, in registration order
    config,          \* src/pdf/config.py and the optional imports, fixed for a process
    storage,         \* the ArtifactStorage collaborator: result.json per document_id
    ocr_pool,        \* self._ocr_pool
    calls,           \* how many times process_pdf has been called
    returned,        \* what process_pdf has handed back to its callers
    pc,              \* the position of the current call
    request,         \* the arguments of the current call
    pages_count,     \* extract: len(pdf.pages)
    page_indices,    \* extract: the page indices to process
    status,          \* extract: the state of each page worker
    page_data,       \* extract: what each finished worker returned, by page index
    results_map,     \* extract: results_map, in insertion order (kept until the call returns)
    ocr_held,        \* extract: the workers inside self._ocr_semaphore
    log,             \* the events logged by the current call
    doc_extracted,   \* the ExtractionResult
    doc_fingerprint, \* the fingerprint
    doc_rows,        \* the rows of normalize_rows so far
    metrics,         \* extracted.metadata["metrics"]
    parsed_txns,     \* parse_transactions' list
    validated_txns,  \* validate_statement's list
    summary,         \* validate_statement's summary
    masked_txns      \* mask_pii's list

\* result.json does not exist.
NoFile == [exists |-> FALSE, chunks |-> <<>>]

vars == <<runs, result_file, ocr_section, pools_built, unit_call, intake, parser_registry, config, storage, ocr_pool, calls, returned, pc, request, pages_count, page_indices, status, page_data,
          results_map, ocr_held, log, doc_extracted, doc_fingerprint, doc_rows, metrics, parsed_txns, validated_txns,
          summary, masked_txns>>

\* _parse_amount under the environment's _HAVE_BABEL.
_parse_amount(text, currency_hint) == ParseAmountWith(text, config.HAVE_BABEL)

(***************************************************************************)
(* Bounds of the model and defaults of src/pdf/config.py                   *)
(***************************************************************************)
\* The calls of process_pdf in one behaviour.
MaxRuns == 2

\* The page limit the model runs with besides the default.
SmallPageLimit == 2

\* The page workers of the thread pool.
MaxWorkers == 2

MAX_PAGES_DEFAULT == 200

MAX_CHARS_PER_PAGE_DEFAULT == 20000

OCR_MAX_PAGES_DEFAULT == 5

OCR_MAX_CONCURRENT_DEFAULT == 2

(***************************************************************************)
(* Row Normalizer, tier A: tables                                          *)
(***************************************************************************)
RECURSIVE SortedSeqOf(_)
SortedSeqOf(S) == IF S = {} THEN <<>>
                  ELSE LET x == CHOOSE x \in S : \A y \in S : x <= y
                       IN <<x>> \o SortedSeqOf(S \ {x})

\* The row_dict a tier starts every row with.
NewRow(source, page_index, row_seq, currency_hint) ==
    [date |-> None, description |-> None, debit |-> None, credit |-> None,
     amount |-> None, balance |-> None, currency |-> currency_hint,
     source |-> source, page_index |-> Num(page_index), row_seq |-> Num(row_seq)]

\* "if parsed is not None: row_dict[canonical_name] = parsed"
AssignParsed(row_dict, canonical_name, parsed) ==
    IF ~IsDec(parsed) THEN row_dict ELSE [row_dict EXCEPT ![canonical_name] = parsed]

\* _assign_cell_value(row_dict, canonical_name, value, currency_hint); value a str.
_assign_cell_value(row_dict, canonical_name, value, currency_hint) ==
    IF canonical_name = "date" THEN [row_dict EXCEPT !.date = _parse_date(Str(value))]
    ELSE IF canonical_name \in {"debit", "credit", "amount", "balance"}
    THEN AssignParsed(row_dict, canonical_name, _parse_amount(Str(value), currency_hint))
    ELSE IF canonical_name = "currency"
    THEN [row_dict EXCEPT !.currency = IF Strip(value, Whitespace) # <<>> THEN Str(Strip(value, Whitespace)) ELSE row_dict.currency]
    ELSE IF canonical_name = "description"
    THEN [row_dict EXCEPT !.description =
             Str(Strip((IF TruthyStr(row_dict.description) THEN row_dict.description.s ELSE <<>>) \o <<" ">> \o value, Whitespace))]
    ELSE row_dict

\* The loop "for col_index, canonical_name in header_map.items()" over the
\* columns cols (ascending), cells[col_index] being the cell text.
RECURSIVE AssignMapped(_, _, _, _, _)
AssignMapped(row_dict, header_map, cols, cells, currency_hint) ==
    IF cols = <<>> THEN row_dict
    ELSE AssignMapped(IF Head(cols) <= Len(cells)
                      THEN _assign_cell_value(row_dict, header_map[Head(cols)], cells[Head(cols)], currency_hint)
                      ELSE row_dict,
                      header_map, Tail(cols), cells, currency_hint)

\* The canonical name the headerless heuristic gives a cell ("" for None): the
\* first date-like cell is the date, numeric-like cells fill amount then
\* balance, the first other cell is the description.
HeuristicName(row_dict, value) ==
    IF _looks_like_date(Str(value)) /\ row_dict.date = None THEN "date"
    ELSE IF _looks_like_amount(Str(value))
    THEN (IF row_dict.amount = None THEN "amount" ELSE "balance")
    ELSE IF ~TruthyStr(row_dict.description) THEN "description" ELSE ""

\* "if canonical_name: self._assign_cell_value(...)"
AssignNamed(row_dict, canonical_name, value, currency_hint) ==
    IF canonical_name # "" THEN _assign_cell_value(row_dict, canonical_name, value, currency_hint)
    ELSE row_dict

\* The loop "for idx, value in enumerate(raw_row)" of the headerless heuristic.
RECURSIVE AssignHeuristic(_, _, _)
AssignHeuristic(row_dict, cells, currency_hint) ==
    IF cells = <<>> THEN row_dict
    ELSE AssignHeuristic(AssignNamed(row_dict, HeuristicName(row_dict, Head(cells)), Head(cells), currency_hint),
                         Tail(cells), currency_hint)

\* "Post-process amount sign from debit/credit if needed".
DeriveAmount(row_dict) ==
    IF row_dict.amount # None THEN row_dict
    ELSE IF IsDec(row_dict.debit) THEN [row_dict EXCEPT !.amount = Dec(0 - row_dict.debit.v)]
    ELSE IF IsDec(row_dict.credit) THEN [row_dict EXCEPT !.amount = row_dict.credit]
    ELSE row_dict

\* "Basic validity: need at least description or amount".
RowIsKept(row_dict) == TruthyStr(row_dict.description) \/ TruthyDec(row_dict.amount)

\* "data_rows = table[1:] if header_map else table", each row with the header
\* mapping of its table.
DataRows(header_map, data_rows) == [i \in DOMAIN data_rows |-> [hm |-> header_map, raw |-> data_rows[i]]]

TableData(table, header_map) == DataRows(header_map, IF DOMAIN header_map # {} THEN Tail(table) ELSE table)

\* The data rows of one page's tables with the header mapping of their table,
\* in the order the loops visit them (seq_counter is the position in this list).
RECURSIVE PageDataRows(_)
PageDataRows(tables) ==
    IF tables = <<>> THEN <<>>
    ELSE (IF Head(tables) = <<>> THEN <<>>
          ELSE TableData(Head(tables), _detect_header_mapping([i \in DOMAIN Head(tables)[1] |-> Str(Head(tables)[1][i])])))
         \o PageDataRows(Tail(tables))

\* One table row to its row_dict.
TableRow(d, page_index, row_seq, currency_hint) ==
    DeriveAmount(IF DOMAIN d.hm # {}
                 THEN AssignMapped(NewRow("table", page_index, row_seq, currency_hint), d.hm, SortedSeqOf(DOMAIN d.hm), d.raw, currency_hint)
                 ELSE AssignHeuristic(NewRow("table", page_index, row_seq, currency_hint), d.raw, currency_hint))

\* The kept rows among the data rows ds of page page_index (0-based).
KeptRows(ds, page_index, currency_hint) ==
    SelectSeq([i \in DOMAIN ds |-> TableRow(ds[i], page_index, i - 1, currency_hint)], RowIsKept)

TableRowsOfPage(tables, page_index, currency_hint) == KeptRows(PageDataRows(tables), page_index, currency_hint)

\* getattr(config, "EARLY_STOP_MIN_ROWS", 0) > 0 and len(normalized) >= it
EarlyStop(normalized) == config.EARLY_STOP_MIN_ROWS > 0 /\ Len(normalized) >= config.EARLY_STOP_MIN_ROWS

\* A tier that did not run, or ran to its end with rows: [rows, stopped],
\* stopped telling that normalize_rows returned from inside the tier.
Ended(normalized) == [rows |-> normalized, stopped |-> FALSE]

EarlyReturn(normalized) == [rows |-> normalized, stopped |-> TRUE]

\* "for page_index, tables in enumerate(extracted.page_tables)", from
\* page_index on; the loop returns after a page on EarlyStop.
RECURSIVE TablePages(_, _, _, _)
TablesAfterPage(page_tables, page_index, currency_hint, now) ==
    IF EarlyStop(now) THEN EarlyReturn(now)
    ELSE TablePages(page_tables, page_index + 1, currency_hint, now)

TablePages(page_tables, page_index, currency_hint, normalized) ==
    IF page_index >= Len(page_tables) THEN Ended(normalized)
    ELSE TablesAfterPage(page_tables, page_index, currency_hint,
                         normalized \o TableRowsOfPage(page_tables[page_index + 1], page_index, currency_hint))

TablesTier(extracted, currency_hint) == TablePages(extracted.page_tables, 0, currency_hint, <<>>)

(***************************************************************************)
(* Tokenization (src/pdf/pdf_pipeline/tokenization.py).  A word is         *)
(* [text, x0, x1, top] with integer coordinates in points; midpoints are   *)
(* kept doubled (x0 + x1) so that every comparison stays in the integers.  *)
(***************************************************************************)
Y_TOLERANCE_X2 == 5

GAP_SPLIT == 15

BAND_PAD == 10

MAX_COLS == 10

HEADER_SCAN_ROWS == 8

Abs(x) == IF x < 0 THEN 0 - x ELSE x

Mid2(t) == t.x0 + t.x1

\* sorted(words, key=(top, x0)): stable insertion of w into a sorted list.
RECURSIVE InsertWord(_, _)
InsertWord(sorted, w) ==
    IF sorted = <<>> THEN <<w>>
    ELSE LET h == Head(sorted)
         IN IF h.top < w.top \/ (h.top = w.top /\ h.x0 <= w.x0)
            THEN <<h>> \o InsertWord(Tail(sorted), w)
            ELSE <<w>> \o sorted

RECURSIVE SortWords(_)
SortWords(words) == IF words = <<>> THEN <<>>
                    ELSE InsertWord(SortWords(SubSeq(words, 1, Len(words) - 1)), words[Len(words)])

RECURSIVE GroupRows(_, _)
GroupRows(words_sorted, rows) ==
    IF words_sorted = <<>> THEN rows
    ELSE LET w == Head(words_sorted)
             n == Len(rows)
         IN IF n = 0 \/ 2 * Abs(rows[n].y - w.top) > Y_TOLERANCE_X2
            THEN GroupRows(Tail(words_sorted), Append(rows, [y |-> w.top, tokens |-> <<w>>]))
            ELSE GroupRows(Tail(words_sorted), [rows EXCEPT ![n].tokens = Append(@, w)])

\* words_to_rows(words)
words_to_rows(words) == GroupRows(SortWords(words), <<>>)

RECURSIVE SortInts(_)
SortInts(s) == IF s = <<>> THEN <<>>
               ELSE LET m == CHOOSE i \in DOMAIN s : \A j \in DOMAIN s : s[i] <= s[j]
                    IN <<s[m]>> \o SortInts([k \in 1..(Len(s) - 1) |-> IF k < m THEN s[k] ELSE s[k + 1]])

\* The end of the cluster of the sorted (doubled) midpoints that starts at i:
\* the first index followed by a gap >= 15pt, or the last index.
RECURSIVE ClusterEnd(_, _)
ClusterEnd(mids, i) == IF i >= Len(mids) \/ mids[i + 1] - mids[i] >= 2 * GAP_SPLIT THEN i
                       ELSE ClusterEnd(mids, i + 1)

RECURSIVE ClustersFrom(_, _)
ClustersFrom(mids, i) == IF i > Len(mids) THEN <<>>
                         ELSE <<SubSeq(mids, i, ClusterEnd(mids, i))>> \o ClustersFrom(mids, ClusterEnd(mids, i) + 1)

\* The clusters of the sorted (doubled) midpoints, split at gaps >= 15pt.
Clusters(mids) == ClustersFrom(mids, 1)

\* The band of cluster c merged into bands: appended, or widening the last one
\* it overlaps.
AddBand(bands, xmin, xmax) ==
    IF bands = <<>> \/ xmin > bands[Len(bands)][2] THEN Append(bands, <<xmin, xmax>>)
    ELSE [bands EXCEPT ![Len(bands)] = <<@[1], IF @[2] > xmax THEN @[2] ELSE xmax>>]

\* Clusters to bands <<xmin, xmax>> (doubled), overlapping ones merged.
RECURSIVE Bands(_, _)
Bands(clusters, bands) ==
    IF clusters = <<>> THEN bands
    ELSE Bands(Tail(clusters),
               AddBand(bands, Head(clusters)[1] - 2 * BAND_PAD, Head(clusters)[Len(Head(clusters))] + 2 * BAND_PAD))

\* "if len(clusters) > max_cols: clusters = clusters[:max_cols]"
Limited(clusters) == IF Len(clusters) > MAX_COLS THEN SubSeq(clusters, 1, MAX_COLS) ELSE clusters

\* infer_column_bands(header_tokens, max_cols=10)
infer_column_bands(header_tokens) ==
    Bands(Limited(Clusters(SortInts([i \in DOMAIN header_tokens |-> Mid2(header_tokens[i])]))), <<>>)

\* The first band, from the i-th on, that holds the (doubled) midpoint; 0 for none.
RECURSIVE BandFrom(_, _, _)
BandFrom(bands, mid2, i) == IF i > Len(bands) THEN 0
                            ELSE IF bands[i][1] <= mid2 /\ mid2 <= bands[i][2] THEN i
                            ELSE BandFrom(bands, mid2, i + 1)

\* assign_tokens_to_columns(tokens, bands): each token goes to the first band
\* that holds its midpoint; a token in no band is left out.
assign_tokens_to_columns(tokens, bands) ==
    [i \in DOMAIN bands |-> SelectSeq(tokens, LAMBDA t : BandFrom(bands, Mid2(t), 1) = i)]

(***************************************************************************)
(* Row Normalizer, tier B: rows reconstructed from word tokens             *)
(***************************************************************************)
HeaderNames == {"date", "description", "debit", "credit", "amount", "balance"}

\* " ".join(t["text"] for t in cell).strip()
CellText(cell) == Strip(JoinWith([i \in DOMAIN cell |-> cell[i].text], <<" ">>), Whitespace)

IsHeaderCandidate(r) == \E i \in DOMAIN r.tokens : _standardize_header_token(Str(r.tokens[i].text)) \in HeaderNames

\* header_candidates[0] among rows_tokens[:8]: its index, from the i-th row
\* on, or 0 when there is none.
RECURSIVE HeaderFrom(_, _)
HeaderFrom(rows_tokens, i) == IF i > Len(rows_tokens) \/ i > HEADER_SCAN_ROWS THEN 0
                              ELSE IF IsHeaderCandidate(rows_tokens[i]) THEN i
                              ELSE HeaderFrom(rows_tokens, i + 1)

\* col_texts / header_cells_text: the text of every column of a row.
ColTexts(col_tokens) == [i \in DOMAIN col_tokens |-> CellText(col_tokens[i])]

\* The header map of the token tier, from the texts of the header cells.
HeaderMapOf(header_cells_text) ==
    MappingOf([i \in DOMAIN header_cells_text |-> _standardize_header_token(Str(header_cells_text[i]))])

\* description_col_index: the first column mapped to "description", 0 for None.
DescriptionCol(header_map) ==
    IF \E c \in DOMAIN header_map : header_map[c] = "description"
    THEN CHOOSE c \in DOMAIN header_map : header_map[c] = "description" /\ \A d \in DOMAIN header_map : header_map[d] = "description" => c <= d
    ELSE 0

\* The continuation heuristic applies: no number, no date, a description, and
\* a previous row whose description is a str.
Merges(row_dict, normalized) ==
    /\ ~\E f \in {"amount", "debit", "credit", "balance"} : IsDec(row_dict[f])
    /\ ~IsDate(row_dict.date)
    /\ TruthyStr(row_dict.description)
    /\ normalized # <<>> /\ IsStr(normalized[Len(normalized)].description)

\* desc_piece: the text of the description column when it is known, else the
\* row's description.
DescPiece(description_col_index, col_texts, row_dict) ==
    IF description_col_index # 0 /\ description_col_index <= Len(col_texts)
    THEN col_texts[description_col_index]
    ELSE row_dict.description.s

\* prev["description"] = (prev["description"] + " " + str(desc_piece)).strip()
MergeInto(normalized, desc_piece) ==
    [normalized EXCEPT ![Len(normalized)].description = Str(Strip(@.s \o <<" ">> \o desc_piece, Whitespace))]

\* The rows after the header of one page, folded into normalized: a row with
\* no text is skipped, a continuation row is merged into the previous row,
\* another row is appended when it is kept.
RECURSIVE TokenRows(_, _, _, _, _, _, _)
TokenRowDict(rows, bands, header_map, page_index, seq_counter, currency_hint, normalized, col_texts, row_dict) ==
    TokenRows(Tail(rows), bands, header_map, page_index, seq_counter + 1, currency_hint,
              IF Merges(row_dict, normalized)
              THEN MergeInto(normalized, DescPiece(DescriptionCol(header_map), col_texts, row_dict))
              ELSE IF RowIsKept(row_dict) THEN Append(normalized, row_dict) ELSE normalized)

TokenRowTexts(rows, bands, header_map, page_index, seq_counter, currency_hint, normalized, col_texts) ==
    IF \A i \in DOMAIN col_texts : col_texts[i] = <<>>
    THEN TokenRows(Tail(rows), bands, header_map, page_index, seq_counter, currency_hint, normalized)
    ELSE TokenRowDict(rows, bands, header_map, page_index, seq_counter, currency_hint, normalized, col_texts,
                      DeriveAmount(AssignMapped(NewRow("tokens", page_index, seq_counter, currency_hint),
                                                header_map, SortedSeqOf(DOMAIN header_map), col_texts, currency_hint)))

TokenRows(rows, bands, header_map, page_index, seq_counter, currency_hint, normalized) ==
    IF rows = <<>> THEN normalized
    ELSE TokenRowTexts(rows, bands, header_map, page_index, seq_counter, currency_hint, normalized,
                       ColTexts(assign_tokens_to_columns(Head(rows).tokens, bands)))

\* The page from its header row h on, with the bands of the header.
TokenBands(rows_tokens, h, bands, page_index, currency_hint, normalized) ==
    IF bands = <<>> THEN normalized
    ELSE TokenRows(SubSeq(rows_tokens, h + 1, Len(rows_tokens)), bands,
                   HeaderMapOf(ColTexts(assign_tokens_to_columns(rows_tokens[h].tokens, bands))),
                   page_index, 0, currency_hint, normalized)

\* The page from its header row h on (0: the page has no header row).
TokenHeader(rows_tokens, h, page_index, currency_hint, normalized) ==
    IF h = 0 THEN normalized
    ELSE TokenBands(rows_tokens, h, infer_column_bands(rows_tokens[h].tokens), page_index, currency_hint, normalized)

TokenGrid(rows_tokens, page_index, currency_hint, normalized) ==
    TokenHeader(rows_tokens, HeaderFrom(rows_tokens, 1), page_index, currency_hint, normalized)

\* The body of the token loop for one page.
TokenPage(words, page_index, currency_hint, normalized) ==
    IF words = <<>> THEN normalized
    ELSE TokenGrid(words_to_rows(words), page_index, currency_hint, normalized)

\* "for page_index, words in enumerate(extracted.page_words)", from page_index
\* on; the loop returns after a page on EarlyStop.
RECURSIVE TokenPages(_, _, _, _)
TokensAfterPage(page_words, page_index, currency_hint, now) ==
    IF EarlyStop(now) THEN EarlyReturn(now)
    ELSE TokenPages(page_words, page_index + 1, currency_hint, now)

TokenPages(page_words, page_index, currency_hint, normalized) ==
    IF page_index >= Len(page_words) THEN Ended(normalized)
    ELSE TokensAfterPage(page_words, page_index, currency_hint,
                         TokenPage(page_words[page_index + 1], page_index, currency_hint, normalized))

TokensTier(extracted, currency_hint) == TokenPages(extracted.page_words, 0, currency_hint, <<>>)

(***************************************************************************)
(* Row Normalizer, tier C: text lines (LINE_RE)                            *)
(***************************************************************************)
LINE_WINDOW == 80

\* The number of consecutive digits of s from position i, at most cap.
RECURSIVE DigitRun(_, _, _)
DigitRun(s, i, cap) == IF cap = 0 \/ i > Len(s) \/ ~IsDigit(s[i]) THEN 0
                       ELSE 1 + DigitRun(s, i + 1, cap - 1)

\* (?:[,\s]\d{3})* from position i: the position after the last group.
RECURSIVE AfterGroups(_, _)
AfterGroups(s, i) == IF i <= Len(s) /\ (s[i] = "," \/ IsSpace(s[i])) /\ DigitRun(s, i + 1, 3) = 3
                     THEN AfterGroups(s, i + 4) ELSE i

\* \(? at q
AfterOpen(s, q) == IF q <= Len(s) /\ s[q] = "(" THEN q + 1 ELSE q

\* -? at i
AfterMinus(s, i) == IF i <= Len(s) /\ s[i] = "-" THEN i + 1 ELSE i

\* (?:\.\d{2})? at i
AfterFraction(s, i) == IF i <= Len(s) /\ s[i] = "." /\ DigitRun(s, i + 1, 2) = 2 THEN i + 3 ELSE i

\* \)? at i
AfterClose(s, i) == IF i <= Len(s) /\ s[i] = ")" THEN i + 1 ELSE i

\* \d{1,3}(?:[,\s]\d{3})*(?:\.\d{2})?\)? at i, d being the digits of \d{1,3}.
AfterDigits(s, i, d) == IF d = 0 THEN 0 ELSE AfterClose(s, AfterFraction(s, AfterGroups(s, i + d)))

AfterSign(s, i) == AfterDigits(s, i, DigitRun(s, i, 3))

\* The amount token \(?-?\d{1,3}(?:[,\s]\d{3})*(?:\.\d{2})?\)? matched at
\* position q of s: the position after the match, or 0 when there is none.
\* (The second alternative of AMOUNT_TOKEN_RE_STR is never taken: whenever it
\* matches at q the first one does, and nothing that follows it is required.)
AmountTokenEnd(s, q) == AfterSign(s, AfterMinus(s, AfterOpen(s, q)))

\* .{1,80}?(?P<amount>...) after the date that ends before e: the first
\* position from q on, within the window, where an amount token matches; 0 for none.
RECURSIVE AmountFrom(_, _, _)
AmountFrom(line, e, q) == IF q > Len(line) \/ q - e > LINE_WINDOW THEN 0
                          ELSE IF AmountTokenEnd(line, q) # 0 THEN q
                          ELSE AmountFrom(line, e, q + 1)

AmountAfter(line, e) == AmountFrom(line, e, e + 1)

\* A date token, a whole word of the line, starts at p.
IsDateStart(line, p) == /\ (p = 1 \/ IsSpace(line[p - 1])) /\ ~IsSpace(line[p])
                        /\ IsDateToken(SubSeq(line, p, WordEnd(line, p) - 1))

\* The leftmost position, from p on, where LINE_RE matches; 0 for none.
RECURSIVE MatchFrom(_, _)
MatchFrom(line, p) == IF p > Len(line) THEN 0
                      ELSE IF IsDateStart(line, p) /\ AmountAfter(line, WordEnd(line, p)) # 0 THEN p
                      ELSE MatchFrom(line, p + 1)

\* (?:\s+(?P<balance>...))? : the balance group from b, where the whitespace
\* after the amount (which ends before a) ends; <<>> when it takes no part.
BalanceGroup(line, b, bEnd) == IF bEnd = 0 THEN <<>> ELSE SubSeq(line, b, bEnd - 1)

BalanceAfter(line, a, b) == BalanceGroup(line, b, IF b > a THEN AmountTokenEnd(line, b) ELSE 0)

\* The groups of the match whose date starts at p and whose amount is line[q..a-1].
Groups(line, p, q, a) ==
    [date |-> SubSeq(line, p, WordEnd(line, p) - 1),
     amount |-> SubSeq(line, q, a - 1),
     balance |-> BalanceAfter(line, a, SpaceEnd(line, a))]

GroupsFrom(line, p, q) == Groups(line, p, q, AmountTokenEnd(line, q))

GroupsAt(line, p) == IF p = 0 THEN None ELSE GroupsFrom(line, p, AmountAfter(line, WordEnd(line, p)))

\* LINE_RE.search(line): [date, amount, balance] as texts (balance <<>> when the
\* group did not take part), or None.  The date token is a whole word of the line.
LineMatch(line) == GroupsAt(line, MatchFrom(line, 1))

\* str.replace(sub, "") for a non-empty sub.
RECURSIVE RemoveAll(_, _)
RemoveAll(s, sub) == IF s = <<>> THEN <<>>
                     ELSE IF OccursAt(s, sub, 1) THEN RemoveAll(SubSeq(s, Len(sub) + 1, Len(s)), sub)
                     ELSE <<Head(s)>> \o RemoveAll(Tail(s), sub)

\* re.sub(r"\s{2,}", " ", s): a run of two or more whitespace becomes one blank.
RECURSIVE CollapseRuns(_)
CollapseRuns(s) == IF s = <<>> THEN <<>>
                   ELSE IF IsSpace(Head(s)) /\ SpaceEnd(s, 1) > 2
                        THEN <<" ">> \o CollapseRuns(SubSeq(s, SpaceEnd(s, 1), Len(s)))
                        ELSE <<Head(s)>> \o CollapseRuns(Tail(s))

\* "if m.groupdict().get("balance"): description = description.replace(...)"
WithoutBalance(description, balance) == IF balance = <<>> THEN description ELSE RemoveAll(description, balance)

\* The description of a matching line: the line without the fragments matched.
LineDescription(line, m) ==
    Strip(CollapseRuns(WithoutBalance(RemoveAll(RemoveAll(line, m.date), m.amount), m.balance)), {" ", "-", "|", ":"})

\* The row dict of the text tier; parsed holds _parse_amount of the amount and
\* balance groups.
TextRowOf(parsed_date, description, amount, balance, page_index, row_seq, currency_hint) ==
    [date |-> parsed_date,
     description |-> IF description = <<>> THEN None ELSE Str(description),
     debit |-> IF ~IsDec(amount) \/ amount.v >= 0 THEN None ELSE Dec(0 - amount.v),
     credit |-> IF IsDec(amount) /\ amount.v > 0 THEN amount ELSE None,
     amount |-> amount, balance |-> balance, currency |-> currency_hint,
     source |-> "text", page_index |-> Num(page_index), row_seq |-> Num(row_seq)]

TextRowParsed(line, m, parsed, page_index, row_seq, currency_hint) ==
    TextRowOf(_parse_date(Str(m.date)), LineDescription(line, m), parsed.amount, parsed.balance,
              page_index, row_seq, currency_hint)

\* The row of one matching line.  A balance group that took no part is parsed
\* as the empty text, which like None gives None.
TextRow(line, m, page_index, row_seq, currency_hint) ==
    TextRowParsed(line, m, [g \in {"amount", "balance"} |-> _parse_amount(Str(m[g]), currency_hint)],
                  page_index, row_seq, currency_hint)

\* The loop over the lines of one page; the result is [rows, stopped]: the
\* loop returns after a row on EarlyStop.
RECURSIVE TextLines(_, _, _, _, _)
TextAfterRow(lines, page_index, seq_counter, currency_hint, now) ==
    IF EarlyStop(now) THEN EarlyReturn(now)
    ELSE TextLines(Tail(lines), page_index, seq_counter + 1, currency_hint, now)

TextMatched(lines, page_index, seq_counter, currency_hint, normalized, line, m) ==
    IF m = None THEN TextLines(Tail(lines), page_index, seq_counter, currency_hint, normalized)
    ELSE TextAfterRow(lines, page_index, seq_counter, currency_hint,
                      Append(normalized, TextRow(line, m, page_index, seq_counter, currency_hint)))

TextLine(lines, page_index, seq_counter, currency_hint, normalized, line) ==
    TextMatched(lines, page_index, seq_counter, currency_hint, normalized, line,
                IF line = <<>> THEN None ELSE LineMatch(line))

TextLines(lines, page_index, seq_counter, currency_hint, normalized) ==
    IF lines = <<>> THEN Ended(normalized)
    ELSE TextLine(lines, page_index, seq_counter, currency_hint, normalized, Strip(Head(lines), Whitespace))

\* "for page_index, text in enumerate(extracted.page_texts)", from page_index on.
RECURSIVE TextPages(_, _, _, _)
TextAfterPage(page_texts, page_index, currency_hint, r) ==
    IF r.stopped THEN r ELSE TextPages(page_texts, page_index + 1, currency_hint, r.rows)

TextPages(page_texts, page_index, currency_hint, normalized) ==
    IF page_index >= Len(page_texts) THEN Ended(normalized)
    ELSE TextAfterPage(page_texts, page_index, currency_hint,
                       TextLines(SplitLines(page_texts[page_index + 1]), page_index, 0, currency_hint, normalized))

TextTier(extracted, currency_hint) == TextPages(extracted.page_texts, 0, currency_hint, <<>>)

(***************************************************************************)
(* normalize_rows                                                          *)
(***************************************************************************)
\* A faulty gate: the tokens tier runs whatever the tables gave.
RunsTokensRegardless(extracted, tables) == ~tables.stopped /\ extracted.page_words # <<>>

\* The tiers normalize_rows runs, in order: tokens only when the tables gave no
\* row (and page_words is not empty), text only when there is still no row.
RunsTokens(extracted, tables) == ~tables.stopped /\ tables.rows = <<>> /\ extracted.page_words # <<>>

RunsText(extracted, tables, tokens) == ~tables.stopped /\ ~tokens.stopped /\ tokens.rows = <<>> /\ tables.rows = <<>>

\* A tier that does not run.
NoRun == Ended(<<>>)

\* The rows of one source among the normalized rows.
RowsFrom(normalized, source) == Cardinality({i \in DOMAIN normalized : normalized[i].source = source})

\* metrics["pages_with_tokens"]: the pages of the tokens tier that had words, a
\* header row and column bands.
HasBands(rows_tokens, h) == h # 0 /\ infer_column_bands(rows_tokens[h].tokens) # <<>>

HasGrid(rows_tokens) == HasBands(rows_tokens, HeaderFrom(rows_tokens, 1))

PagesWithTokens(page_words) ==
    Cardinality({p \in DOMAIN page_words : page_words[p] # <<>> /\ HasGrid(words_to_rows(page_words[p]))})

\* The metrics dict normalize_rows merges into extracted.metadata["metrics"]
\* when it runs to its end.
Metrics(extracted, normalized, ran_tokens) ==
    [rows_from_tables |-> RowsFrom(normalized, "table"),
     rows_from_tokens |-> RowsFrom(normalized, "tokens"),
     rows_from_text |-> RowsFrom(normalized, "text"),
     pages_with_tables |-> Cardinality({p \in DOMAIN extracted.page_tables : extracted.page_tables[p] # <<>>}),
     pages_with_tokens |-> IF ran_tokens THEN PagesWithTokens(extracted.page_words) ELSE 0]

\* normalize_rows(extracted, fingerprint): [rows, metrics], metrics being the
\* record merged into extracted.metadata["metrics"], or None on an early return
\* (which leaves the metadata alone).
AfterText(extracted, tables, tokens, text) ==
    [rows |-> tables.rows \o tokens.rows \o text.rows,
     metrics |-> IF tables.stopped \/ tokens.stopped \/ text.stopped THEN None
                 ELSE Metrics(extracted, tables.rows \o tokens.rows \o text.rows, RunsTokens(extracted, tables))]

AfterTokens(extracted, currency_hint, tables, tokens) ==
    AfterText(extracted, tables, tokens,
              IF RunsText(extracted, tables, tokens) THEN TextTier(extracted, currency_hint) ELSE NoRun)

AfterTables(extracted, currency_hint, tables) ==
    AfterTokens(extracted, currency_hint, tables,
                IF RunsTokens(extracted, tables) THEN TokensTier(extracted, currency_hint) ELSE NoRun)

normalize_rows(extracted, fingerprint) ==
    AfterTables(extracted, fingerprint.currency, TablesTier(extracted, fingerprint.currency))

(***************************************************************************)
(* Transaction Builder                                                     *)
(***************************************************************************)
\* Decimal.quantize(Decimal("0.01")) under the default ROUND_HALF_EVEN, as the
\* pair the string of the result shows: its sign and its hundredths.
Quantize(v) ==
    LET a == Abs(v)
        q == a \div (Unit \div 100)
        r == a % (Unit \div 100)
        half == (Unit \div 100) \div 2
        up == r > half \/ (r = half /\ q % 2 = 1)
    IN [neg |-> v < 0, cents |-> IF up THEN q + 1 ELSE q]

\* hashlib.sha1(key).hexdigest(): the tagged preimage.
Sha1(preimage) == <<"sha1", preimage>>

\* A faulty id: the number of the call is hashed with the parts.
RunStampedId(document_id, account_id, date_value, description, amount, page_index) ==
    Sha1(<<calls, document_id,
           IF IsStr(account_id) THEN account_id.s ELSE <<>>,
           IF IsDate(date_value) THEN <<date_value.y, date_value.m, date_value.d>> ELSE <<>>,
           IF IsStr(description) THEN Lower(description.s) ELSE <<>>,
           IF IsDec(amount) THEN <<amount.v>> ELSE <<>>,
           IF IsNum(page_index) THEN <<page_index.v>> ELSE <<>> >>)

\* _compute_transaction_id: the digest of the "|"-joined parts, kept as the
\* tuple of the parts.
_compute_transaction_id(document_id, account_id, date_value, description, amount, page_index) ==
    Sha1(<<document_id,
           IF IsStr(account_id) THEN account_id.s ELSE <<>>,
           IF IsDate(date_value) THEN <<date_value.y, date_value.m, date_value.d>> ELSE <<>>,
           IF IsStr(description) THEN Lower(description.s) ELSE <<>>,
           IF IsDec(amount) THEN <<Quantize(amount.v)>> ELSE <<>>,
           IF IsNum(page_index) THEN <<page_index.v>> ELSE <<>> >>)

\* re.sub(r"\s+", " ", description).strip(" -|:") or None
DescriptionNorm(description) ==
    IF ~IsStr(description) THEN None
    ELSE LET d == Strip(CollapseSpaces(description.s), {" ", "-", "|", ":"})
         IN IF d = <<>> THEN None ELSE Str(d)

\* The amount after "if amount is None: derive it from debit, else from credit".
RowAmount(row) ==
    IF row.amount # None THEN row.amount
    ELSE IF IsDec(row.debit) THEN Dec(0 - row.debit.v)
    ELSE IF IsDec(row.credit) THEN row.credit
    ELSE None

\* A faulty noise test: every row without a number is skipped.
SkipsRowsWithoutNumber(row) ==
    ~(IsDec(RowAmount(row)) \/ IsDec(row.debit) \/ IsDec(row.credit) \/ IsDec(row.balance))

\* "Skip noise rows with neither description nor numbers".
IsNoiseRow(row) ==
    LET has_number == IsDec(RowAmount(row)) \/ IsDec(row.debit) \/ IsDec(row.credit) \/ IsDec(row.balance)
    IN DescriptionNorm(row.description) = None /\ ~has_number

\* A faulty recomputation: the debit and credit of the row are kept.
KeepsDebitCredit(amount, debit, credit) == [debit |-> debit, credit |-> credit]

\* "Recompute debit/credit from amount for consistency": [debit, credit].
DebitCredit(amount, debit, credit) ==
    IF ~IsDec(amount) THEN [debit |-> debit, credit |-> credit]
    ELSE IF amount.v < 0 THEN [debit |-> Dec(0 - amount.v), credit |-> None]
    ELSE IF amount.v > 0 THEN [debit |-> None, credit |-> amount]
    ELSE [debit |-> None, credit |-> None]

\* The transaction parse_transactions appends for a row it keeps.
Transaction(row, document_id, account_id) ==
    LET amount == RowAmount(row)
        dc == DebitCredit(amount, row.debit, row.credit)
        description_norm == DescriptionNorm(row.description)
        tx_amount == IF IsDec(amount) THEN amount ELSE None
        page_index == IF IsNum(row.page_index) THEN row.page_index ELSE None
    IN [id |-> _compute_transaction_id(document_id, account_id, row.date, description_norm, tx_amount, page_index),
        account_id |-> account_id,
        date |-> row.date,
        description |-> description_norm,
        amount |-> tx_amount,
        debit |-> IF IsDec(dc.debit) THEN dc.debit ELSE None,
        credit |-> IF IsDec(dc.credit) THEN dc.credit ELSE None,
        balance |-> IF IsDec(row.balance) THEN row.balance ELSE None,
        currency |-> IF IsStr(row.currency) THEN row.currency ELSE None,
        page_index |-> IF IsNum(row.page_index) THEN row.page_index ELSE None,
        row_seq |-> IF IsNum(row.row_seq) THEN row.row_seq ELSE None,
        duplicate_of |-> None,
        raw |-> row]

\* A faulty builder: each transaction is put before those already built.
RECURSIVE ParsePrepending(_, _, _)
ParsePrepending(normalized_rows, document_id, account_id) ==
    IF normalized_rows = <<>> THEN <<>>
    ELSE IF IsNoiseRow(Head(normalized_rows)) THEN ParsePrepending(Tail(normalized_rows), document_id, account_id)
    ELSE ParsePrepending(Tail(normalized_rows), document_id, account_id) \o <<Transaction(Head(normalized_rows), document_id, account_id)>>

\* parse_transactions(normalized_rows, document_id, account_id)
RECURSIVE parse_transactions(_, _, _)
parse_transactions(normalized_rows, document_id, account_id) ==
    IF normalized_rows = <<>> THEN <<>>
    ELSE LET row == Head(normalized_rows)
             rest == parse_transactions(Tail(normalized_rows), document_id, account_id)
         IN IF IsNoiseRow(row) THEN rest
            ELSE <<Transaction(row, document_id, account_id)>> \o rest

(***************************************************************************)
(* Validator / Reconciler                                                  *)
(***************************************************************************)
\* The characters of the model in code-point order (Python compares str by
\* code point).
CodePoints == <<"\t", "\n", " ", "#", "$", "(", ")", ",", "-", ".", "/">> \o Digits
              \o <<":", ";", "<", ">", "@">> \o UpperChars \o <<"_">> \o LowerChars \o <<"|">>

CodePoint(c) == CHOOSE i \in DOMAIN CodePoints : CodePoints[i] = c

\* a < b for two str.
RECURSIVE StrLess(_, _)
StrLess(a, b) == IF b = <<>> THEN FALSE
                 ELSE IF a = <<>> THEN TRUE
                 ELSE IF Head(a) = Head(b) THEN StrLess(Tail(a), Tail(b))
                 ELSE CodePoint(Head(a)) < CodePoint(Head(b))

\* sort_key(t) = (date_part, page_part, row_seq, descr); the date part is the
\* ISO string, "" (sorting first) for anything that is not a date.
sort_key(t) ==
    [date_part |-> IF IsDate(t.date) THEN <<t.date.y, t.date.m, t.date.d>> ELSE <<0, 0, 0>>,
     page_part |-> IF IsNum(t.page_index) THEN t.page_index.v ELSE -1,
     row_seq |-> IF IsNum(t.row_seq) THEN t.row_seq.v ELSE -1,
     descr |-> IF IsStr(t.description) THEN t.description.s ELSE <<>>]

TripleLess(a, b) == \/ a[1] < b[1]
                    \/ (a[1] = b[1] /\ a[2] < b[2])
                    \/ (a[1] = b[1] /\ a[2] = b[2] /\ a[3] < b[3])

\* key a < key b, as Python compares the tuples.
KeyLess(a, b) ==
    \/ TripleLess(a.date_part, b.date_part)
    \/ /\ a.date_part = b.date_part
       /\ \/ a.page_part < b.page_part
          \/ (a.page_part = b.page_part /\ a.row_seq < b.row_seq)
          \/ (a.page_part = b.page_part /\ a.row_seq = b.row_seq /\ StrLess(a.descr, b.descr))

\* list.sort(key=sort_key) is stable: t goes after every element not greater.
RECURSIVE InsertByKey(_, _)
InsertByKey(sorted, t) ==
    IF sorted = <<>> THEN <<t>>
    ELSE IF KeyLess(sort_key(t), sort_key(Head(sorted))) THEN <<t>> \o sorted
    ELSE <<Head(sorted)>> \o InsertByKey(Tail(sorted), t)

RECURSIVE SortByKey(_)
SortByKey(txns) == IF txns = <<>> THEN <<>>
                   ELSE InsertByKey(SortByKey(SubSeq(txns, 1, Len(txns) - 1)), txns[Len(txns)])

\* "Normalize amounts": a non-Decimal amount is derived from debit, else credit.
NormalizeAmount(t) ==
    IF IsDec(t.amount) THEN t
    ELSE [t EXCEPT !.amount = IF IsDec(t.debit) THEN Dec(0 - t.debit.v)
                              ELSE IF IsDec(t.credit) THEN t.credit ELSE None]

AmountOf(t) == IF IsDec(t.amount) THEN t.amount.v ELSE 0

\* The sum of the Decimal amounts of txns[1..n].
RECURSIVE SumAmounts(_, _)
SumAmounts(txns, n) == IF n = 0 THEN 0 ELSE SumAmounts(txns, n - 1) + AmountOf(txns[n])

Total(txns) == SumAmounts(txns, Len(txns))

\* Decimal("0.02") in the model's units.
Tolerance == 2 * (Unit \div 100)

\* A faulty check: the delta must be strictly below the tolerance.
StrictlyWithin(expected_closing, closing_used) == Abs(expected_closing - closing_used) < Tolerance

\* balance_check_passed = (expected_closing - closing_used).copy_abs() <= tolerance
WithinTolerance(expected_closing, closing_used) == Abs(expected_closing - closing_used) <= Tolerance

\* A faulty key: the description is compared as written.
DescriptionAsWritten(t) ==
    <<IF IsDate(t.date) THEN <<t.date.y, t.date.m, t.date.d>> ELSE <<>>,
      IF IsStr(t.description) THEN t.description.s ELSE <<>>,
      IF IsDec(t.amount) THEN <<Quantize(Abs(t.amount.v)).cents>> ELSE <<>>,
      IF IsStr(t.currency) THEN t.currency.s ELSE <<>> >>

\* The key of the duplicate detection: (date, description, |amount| to the cent, currency).
DuplicateKey(t) ==
    <<IF IsDate(t.date) THEN <<t.date.y, t.date.m, t.date.d>> ELSE <<>>,
      IF IsStr(t.description) THEN Lower(Strip(CollapseSpaces(t.description.s), Whitespace)) ELSE <<>>,
      IF IsDec(t.amount) THEN <<Quantize(Abs(t.amount.v)).cents>> ELSE <<>>,
      IF IsStr(t.currency) THEN t.currency.s ELSE <<>> >>

\* The indices the duplicate loop flags: those whose key was seen at a lower index.
DuplicateIndices(txns) == {i \in DOMAIN txns : \E j \in 1..(i - 1) : DuplicateKey(txns[j]) = DuplicateKey(txns[i])}

\* seen_keys[key]: the id of the first transaction with the key.
FirstWithKey(txns, i) == CHOOSE j \in DOMAIN txns : /\ DuplicateKey(txns[j]) = DuplicateKey(txns[i])
                                                    /\ \A l \in 1..(j - 1) : DuplicateKey(txns[l]) # DuplicateKey(txns[i])

\* duplicate_of: the id of the first transaction with the same key (every
\* transaction of the builder has a str id).
Ref(id) == [k |-> "ref", id |-> id]

\* normalized_txns.pop(idx) for every idx of duplicates_indices.
RECURSIVE PopAll(_, _, _)
PopAll(txns, indices, i) ==
    IF i > Len(txns) THEN <<>>
    ELSE (IF i \in indices THEN <<>> ELSE <<txns[i]>>) \o PopAll(txns, indices, i + 1)

\* A faulty rebuild: the balance before the transaction's own amount.
FillBeforeAmount(txns, opening_used) ==
    [i \in DOMAIN txns |-> IF IsDec(txns[i].balance) THEN txns[i]
                           ELSE [txns[i] EXCEPT !.balance = Dec(opening_used.v + SumAmounts(txns, i - 1))]]

\* The running-balance rebuild: a transaction without an inline balance gets
\* opening_used plus the amounts up to and including itself.
Backfill(txns, opening_used) ==
    [i \in DOMAIN txns |-> IF IsDec(txns[i].balance) THEN txns[i]
                           ELSE [txns[i] EXCEPT !.balance = Dec(opening_used.v + SumAmounts(txns, i))]]

\* The totals and the balance check over the sorted transactions, with the
\* running balances rebuilt when an opening is known.
Reconcile(normalized_txns, opening_balance, closing_balance) ==
    LET total == Total(normalized_txns)
        with_balance == {i \in DOMAIN normalized_txns : IsDec(normalized_txns[i].balance)}
        first_idx == CHOOSE i \in with_balance : \A j \in with_balance : i <= j
        last_idx == CHOOSE i \in with_balance : \A j \in with_balance : j <= i
        detected_opening == IF with_balance = {} THEN None
                            ELSE Dec(normalized_txns[first_idx].balance.v - SumAmounts(normalized_txns, first_idx))
        detected_closing == IF with_balance = {} THEN None ELSE normalized_txns[last_idx].balance
        opening_used == IF IsDec(opening_balance) THEN opening_balance ELSE detected_opening
        closing_used == IF IsDec(closing_balance) THEN closing_balance ELSE detected_closing
        expected_closing == IF IsDec(opening_used) THEN Dec(opening_used.v + total) ELSE None
        checked == IsDec(opening_used) /\ IsDec(closing_used)
    IN [txns |-> IF IsDec(opening_used) THEN Backfill(normalized_txns, opening_used) ELSE normalized_txns,
        sum_amount |-> Dec(total),
        opening_balance_input |-> opening_balance,
        closing_balance_input |-> closing_balance,
        opening_balance_detected |-> detected_opening,
        closing_balance_detected |-> detected_closing,
        opening_balance_used |-> opening_used,
        closing_balance_used |-> closing_used,
        expected_closing |-> expected_closing,
        balance_check_passed |-> IF checked THEN (IF WithinTolerance(expected_closing.v, closing_used.v) THEN "true" ELSE "false") ELSE "null",
        balance_check_delta |-> IF checked THEN Dec(expected_closing.v - closing_used.v) ELSE None,
        running_balance_rebuilt |-> IsDec(opening_used) /\ \E i \in DOMAIN normalized_txns : ~IsDec(normalized_txns[i].balance)]

\* The duplicate loop and the optional drop over the reconciled transactions.
FlagDuplicates(rebuilt, drop_duplicates) ==
    LET dups == DuplicateIndices(rebuilt)
        flagged == [i \in DOMAIN rebuilt |->
                      IF i \in dups THEN [rebuilt[i] EXCEPT !.duplicate_of = Ref(rebuilt[FirstWithKey(rebuilt, i)].id)]
                      ELSE rebuilt[i]]
    IN [txns |-> IF drop_duplicates THEN PopAll(flagged, dups, 1) ELSE flagged,
        duplicates_found |-> Cardinality(dups),
        duplicates_removed |-> IF drop_duplicates THEN Cardinality(dups) ELSE 0]

\* The summary dict.
Summary(r, d) ==
    [transactions_count |-> Len(d.txns),
     sum_amount |-> r.sum_amount,
     opening_balance_input |-> r.opening_balance_input,
     closing_balance_input |-> r.closing_balance_input,
     opening_balance_detected |-> r.opening_balance_detected,
     closing_balance_detected |-> r.closing_balance_detected,
     opening_balance_used |-> r.opening_balance_used,
     closing_balance_used |-> r.closing_balance_used,
     expected_closing |-> r.expected_closing,
     balance_check_passed |-> r.balance_check_passed,
     balance_check_delta |-> r.balance_check_delta,
     running_balance_rebuilt |-> r.running_balance_rebuilt,
     duplicates_found |-> d.duplicates_found,
     duplicates_removed |-> d.duplicates_removed]

\* validate_statement(transactions, opening_balance, closing_balance, drop_duplicates):
\* [txns, summary].  Each stage works on the value of the stage before it.
validate_statement(transactions, opening_balance, closing_balance, drop_duplicates) ==
    CHOOSE out \in UNION {UNION {{[txns |-> d.txns, summary |-> Summary(r, d)] :
                                    d \in {FlagDuplicates(r.txns, drop_duplicates)}} :
                                 r \in {Reconcile(n, opening_balance, closing_balance)}} :
                          n \in {SortByKey([i \in DOMAIN transactions |-> NormalizeAmount(transactions[i])])}} : TRUE

(***************************************************************************)
(* PII masking                                                             *)
(***************************************************************************)
\* hashlib.sha1(clean).hexdigest()[:10], kept as one opaque word character
\* that names its preimage; it is never a digit of the masked number.
HexDigest(clean) == ToString(<<"sha1", clean>>)

LastN(s, n) == IF Len(s) <= n THEN s ELSE SubSeq(s, Len(s) - n + 1, Len(s))

\* _deterministic_token(tag, original, keep_last): "<tag:h:tail>" or "<tag:h>".
_deterministic_token(tag, original, keep_last) ==
    LET clean == RemoveChars(original, Whitespace)
        h == HexDigest(clean)
        tail == IF keep_last > 0 THEN LastN(SelectSeq(clean, IsDigit), keep_last) ELSE <<>>
    IN IF tail # <<>> THEN <<"<">> \o tag \o <<":", h, ":">> \o tail \o <<">">>
       ELSE <<"<">> \o tag \o <<":", h, ">">>

\* A character of the text is a word character; the digest stands for hex digits.
IsWordAt(s, i) == i >= 1 /\ i <= Len(s) /\ (IsWordChar(s[i]) \/ Len(s[i]) > 1)

\* \b at the gap before position i (1-based; i = Len(s) + 1 is the end).
Boundary(s, i) == IsWordAt(s, i - 1) # IsWordAt(s, i)

\* The end of the maximal run of word characters starting at i.
RECURSIVE WordRunEnd(_, _)
WordRunEnd(s, i) == IF IsWordAt(s, i) THEN WordRunEnd(s, i + 1) ELSE i

\* \b[A-Z]{2}[0-9A-Z]{13,34}\b matches at i: a whole word of 15 to 36
\* capitals and digits that starts with two capitals.
IsIban(w) == /\ Len(w) >= 15 /\ Len(w) <= 36
             /\ IsUpper(w[1]) /\ IsUpper(w[2])
             /\ \A j \in DOMAIN w : IsUpper(w[j]) \/ IsDigit(w[j])

\* re.sub of the IBAN pattern with _sub_iban, scanning from i.
RECURSIVE SubIban(_, _)
SubIban(s, i) ==
    IF i > Len(s) THEN <<>>
    ELSE IF Boundary(s, i) /\ IsWordAt(s, i)
         THEN LET e == WordRunEnd(s, i)
                  w == SubSeq(s, i, e - 1)
              IN (IF IsIban(w) THEN _deterministic_token(<<"I", "B", "A", "N">>, w, 4) ELSE w) \o SubIban(s, e)
         ELSE <<s[i]>> \o SubIban(s, i + 1)

\* [\s-]
IsAcctSep(c) == IsSpace(c) \/ c = "-"

\* [#:;\s-]
PrefixSeps == Whitespace \cup {"#", ":", ";", "-"}

\* The end of the run of characters of S starting at i.
RECURSIVE SkipWhile(_, _, _)
SkipWhile(s, i, S) == IF i <= Len(s) /\ s[i] \in S THEN SkipWhile(s, i + 1, S) ELSE i

\* account\s*(?:no\.|number) under IGNORECASE at i: the position after it, or 0.
KeywordEnd(s, i) ==
    LET low == Lower(s)
        a == <<"a", "c", "c", "o", "u", "n", "t">>
        j == SkipWhile(s, i + Len(a), Whitespace)
    IN IF ~OccursAt(low, a, i) THEN 0
       ELSE IF OccursAt(low, <<"n", "o", ".">>, j) THEN j + 3
       ELSE IF OccursAt(low, <<"n", "u", "m", "b", "e", "r">>, j) THEN j + 6
       ELSE 0

\* The digit positions of (?:\d[\s-]?)* from d: digits joined by at most one separator.
RECURSIVE DigitChain(_, _, _)
DigitChain(s, d, n) ==
    IF n = 0 \/ d > Len(s) \/ ~IsDigit(s[d]) THEN <<>>
    ELSE <<d>> \o DigitChain(s, IF d + 1 <= Len(s) /\ IsAcctSep(s[d + 1]) THEN d + 2 ELSE d + 1, n - 1)

\* The end (exclusive) of the chain of k digits closed by \b, or 0: the last
\* separator is taken when a word character follows it, else the chain ends
\* at the digit, which must not be followed by a word character.
ChainEnd(s, chain, k) ==
    LET q == chain[k] + 1
    IN IF q <= Len(s) /\ IsAcctSep(s[q])
       THEN (IF Boundary(s, q + 1) THEN q + 1 ELSE q)
       ELSE (IF Boundary(s, q) THEN q ELSE 0)

\* The account pattern at i: [found, end, digits].
AcctMatchAt(s, i) ==
    LET kw == KeywordEnd(s, i)
        d == SkipWhile(s, IF kw > 0 THEN kw ELSE i, PrefixSeps)
        chain == DigitChain(s, d, 12)
        ks == {k \in 8..Len(chain) : ChainEnd(s, chain, k) > 0}
        k == CHOOSE x \in ks : \A y \in ks : y <= x
    IN IF ks = {} THEN [found |-> FALSE]
       ELSE [found |-> TRUE, end |-> ChainEnd(s, chain, k), digits |-> [j \in 1..k |-> s[chain[j]]]]

\* _sub_acct: the digits of the match, 8 to 12 of them, become an ACCT token.
_sub_acct(digits) == _deterministic_token(<<"A", "C", "C", "T">>, digits, 4)

\* re.sub of the account pattern with _sub_acct, scanning from i.
RECURSIVE SubAcct(_, _)
SubAcct(s, i) ==
    IF i > Len(s) THEN <<>>
    ELSE LET m == AcctMatchAt(s, i)
         IN IF m.found THEN _sub_acct(m.digits) \o SubAcct(s, m.end)
            ELSE <<s[i]>> \o SubAcct(s, i + 1)

\* _mask_pii_text with mask_account_like_numbers_only set (PII_MASK_ACCOUNT_ONLY,
\* the default): the card, BVN, sort-code, routing and e-mail rules are skipped.
_mask_pii_text(text) == SubAcct(SubIban(text, 1), 1)

(***************************************************************************)
(* mask_pii                                                                *)
(***************************************************************************)
RECURSIVE NatDigits(_)
NatDigits(n) == IF n < 10 THEN <<Digits[n + 1]>> ELSE NatDigits(n \div 10) \o <<Digits[(n % 10) + 1]>>

\* str(n) for an int.
IntStr(n) == IF n < 0 THEN <<"-">> \o NatDigits(0 - n) ELSE NatDigits(n)

Pad2(n) == IF n < 10 THEN <<"0">> \o NatDigits(n) ELSE NatDigits(n)

\* date.isoformat() for a four-digit year.
IsoFormat(d) == NatDigits(d.y) \o <<"-">> \o Pad2(d.m) \o <<"-">> \o Pad2(d.d)

\* str(x) of a Decimal: a str named by the value it prints (the exponent of
\* the Decimal is not part of the model's values).
DecimalStr(x) == [k |-> "decstr", v |-> x.v]

\* _mask_in_obj on a leaf: str leaves are masked, the others are kept.
_mask_in_obj(obj) == IF IsStr(obj) THEN Str(_mask_pii_text(obj.s)) ELSE obj

\* _stringify_obj on a leaf.
_stringify_obj(obj) ==
    IF obj = None THEN Str(<<>>)
    ELSE IF IsStr(obj) THEN obj
    ELSE IF IsDec(obj) THEN DecimalStr(obj)
    ELSE IF IsNum(obj) THEN Str(IntStr(obj.v))
    ELSE IF IsDate(obj) THEN Str(IsoFormat(obj))
    ELSE obj

\* _stringify_obj(_mask_in_obj(raw)) for the row dict kept in "raw".
MaskRaw(raw) == [f \in DOMAIN raw |-> IF f = "source" THEN raw[f] ELSE _stringify_obj(_mask_in_obj(raw[f]))]

MaskOne(t) == [t EXCEPT !.description = IF IsStr(t.description) THEN Str(_mask_pii_text(t.description.s)) ELSE t.description,
                        !.raw = MaskRaw(t.raw)]

mask_pii(transactions) == [i \in DOMAIN transactions |-> MaskOne(transactions[i])]

(***************************************************************************)
(* Fingerprinter and Parser Registry                                       *)
(***************************************************************************)
\* (pattern, code) pairs: \bword\b alternatives and plain substrings.
currency_patterns == <<
    [words |-> <<<<"n", "g", "n">>>>, plain |-> <<>>, code |-> <<"N", "G", "N">>],
    [words |-> <<<<"u", "s", "d">>>>, plain |-> <<<<"$">>>>, code |-> <<"U", "S", "D">>],
    [words |-> <<<<"e", "u", "r">>>>, plain |-> <<>>, code |-> <<"E", "U", "R">>],
    [words |-> <<<<"g", "p", "b">>, <<"g", "b", "p">>>>, plain |-> <<>>, code |-> <<"G", "B", "P">>],
    [words |-> <<<<"i", "n", "r">>>>, plain |-> <<>>, code |-> <<"I", "N", "R">>],
    [words |-> <<<<"c", "a", "d">>>>, plain |-> <<<<"$">>>>, code |-> <<"C", "A", "D">>]>>

bank_hints == <<
    [words |-> <<<<"a", "c", "c", "e", "s", "s", " ", "b", "a", "n", "k">>>>, plain |-> <<>>, code |-> "ACCESS_BANK"],
    [words |-> <<<<"g", "t", "b", "a", "n", "k">>>>, plain |-> <<<<"g", "u", "a", "r", "a", "n", "t", "y", " ", "t", "r", "u", "s", "t">>>>, code |-> "GTBANK"],
    [words |-> <<<<"z", "e", "n", "i", "t", "h", " ", "b", "a", "n", "k">>>>, plain |-> <<>>, code |-> "ZENITH"],
    [words |-> <<<<"f", "i", "r", "s", "t", " ", "b", "a", "n", "k">>>>, plain |-> <<<<"f", "i", "r", "s", "t", "b", "a", "n", "k">>>>, code |-> "FIRST_BANK"],
    [words |-> <<<<"u", "n", "i", "t", "e", "d", " ", "b", "a", "n", "k", " ", "f", "o", "r", " ", "a", "f", "r", "i", "c", "a">>, <<"u", "b", "a">>>>, plain |-> <<>>, code |-> "UBA"],
    [words |-> <<<<"p", "o", "l", "a", "r", "i", "s", " ", "b", "a", "n", "k">>>>, plain |-> <<>>, code |-> "POLARIS"],
    [words |-> <<<<"u", "n", "i", "o", "n", " ", "b", "a", "n", "k">>>>, plain |-> <<>>, code |-> "UNION_BANK"],
    [words |-> <<<<"s", "t", "e", "r", "l", "i", "n", "g", " ", "b", "a", "n", "k">>>>, plain |-> <<>>, code |-> "STERLING"],
    [words |-> <<<<"f", "i", "d", "e", "l", "i", "t", "y", " ", "b", "a", "n", "k">>>>, plain |-> <<>>, code |-> "FIDELITY"],
    [words |-> <<<<"e", "c", "o", "b", "a", "n", "k">>>>, plain |-> <<>>, code |-> "ECOBANK"],
    [words |-> <<<<"k", "e", "y", "s", "t", "o", "n", "e", " ", "b", "a", "n", "k">>>>, plain |-> <<>>, code |-> "KEYSTONE"],
    [words |-> <<<<"f", "c", "m", "b">>>>, plain |-> <<<<"f", "i", "r", "s", "t", " ", "c", "i", "t", "y", " ", "m", "o", "n", "u", "m", "e", "n", "t">>>>, code |-> "FCMB"],
    [words |-> <<<<"s", "t", "a", "n", "b", "i", "c", " ", "i", "b", "t", "c">>>>, plain |-> <<>>, code |-> "STANBIC_IBTC"],
    [words |-> <<<<"o", "p", "a", "y">>, <<"o", "p", "a", "y", " ", "d", "i", "g", "i", "t", "a", "l">>, <<"o", "p", "a", "y", " ", "b", "a", "n", "k">>>>, plain |-> <<>>, code |-> "OPAY"]>>

HintMatches(hint, text_norm) ==
    \/ \E i \in DOMAIN hint.words : ContainsWord(text_norm, hint.words[i])
    \/ \E i \in DOMAIN hint.plain : Contains(text_norm, hint.plain[i])

\* The code of the first hint that matches, or None.
FirstHint(hints, text_norm) ==
    LET hits == {i \in DOMAIN hints : HintMatches(hints[i], text_norm)}
    IN IF hits = {} THEN None ELSE Str(hints[CHOOSE i \in hits : \A j \in hits : i <= j].code)

NgBanks == {"ACCESS_BANK", "GTBANK", "ZENITH", "FIRST_BANK", "UBA", "POLARIS", "UNION_BANK",
            "STERLING", "FIDELITY", "ECOBANK", "KEYSTONE", "FCMB", "STANBIC_IBTC"}

\* The words of a pattern occur at i joined by \s*: the position after them, or 0.
RECURSIVE WordsEnd(_, _, _)
WordsEnd(low, words, i) ==
    IF words = <<>> THEN i
    ELSE IF OccursAt(low, Head(words), i)
         THEN WordsEnd(low, Tail(words), IF Len(words) > 1 THEN SkipWhile(low, i + Len(Head(words)), Whitespace)
                                         ELSE i + Len(Head(words)))
         ELSE 0

\* The anchor patterns of fingerprint: keyword (IGNORECASE), then [:\s]*, then
\* the group of min to max characters of chars (max 0: no upper limit); word
\* is set where the pattern stands between \b and \b.
account_pattern ==
    [keywords |-> <<<<<<"a", "c", "c", "o", "u", "n", "t">>, <<"n", "o", ".">>>>, <<<<"a", "c", "c", "o", "u", "n", "t">>, <<"n", "u", "m", "b", "e", "r">>>>>>,
     chars |-> Range(Digits) \cup {"-"} \cup Whitespace, min |-> 6, max |-> 0, word |-> FALSE]

sort_code_pattern ==
    [keywords |-> <<<<<<"s", "o", "r", "t">>, <<"c", "o", "d", "e">>>>>>,
     chars |-> Range(Digits) \cup {"-"}, min |-> 6, max |-> 8, word |-> FALSE]

bvn_pattern ==
    [keywords |-> <<<<<<"b", "v", "n">>>>>>, chars |-> Range(Digits), min |-> 11, max |-> 11, word |-> TRUE]

routing_pattern ==
    [keywords |-> <<<<<<"r", "o", "u", "t", "i", "n", "g">>, <<"n", "u", "m", "b", "e", "r">>>>>>,
     chars |-> Range(Digits) \cup {"-"} \cup Whitespace, min |-> 5, max |-> 0, word |-> FALSE]

\* The pattern p at i of the text: [found, end, group].  [:\s]* is greedy and
\* gives characters back to the group when the group is too short without
\* them; the group is greedy.
AnchorAt(s, i, p) ==
    LET low == Lower(s)
        hits == {v \in DOMAIN p.keywords : WordsEnd(low, p.keywords[v], i) > 0}
        kw == WordsEnd(low, p.keywords[CHOOSE v \in hits : \A w \in hits : v <= w], i)
        j == SkipWhile(s, kw, Whitespace \cup {":"})
        GroupEnd(g) == LET e == SkipWhile(s, g, p.chars)
                       IN IF p.max > 0 /\ e - g > p.max THEN g + p.max ELSE e
        starts == {g \in kw..j : /\ \A k \in g..(j - 1) : s[k] \in p.chars
                                 /\ GroupEnd(g) - g >= p.min
                                 /\ p.word => Boundary(s, GroupEnd(g))}
        g == CHOOSE x \in starts : \A y \in starts : y <= x
    IN IF (p.word /\ ~Boundary(s, i)) \/ hits = {} \/ starts = {} THEN [found |-> FALSE]
       ELSE [found |-> TRUE, end |-> GroupEnd(g), group |-> SubSeq(s, g, GroupEnd(g) - 1)]

\* re.findall(pattern, first_text): the groups of the matches, left to right.
RECURSIVE findall(_, _, _)
findall(p, s, i) ==
    IF i > Len(s) THEN <<>>
    ELSE LET m == AnchorAt(s, i, p)
         IN IF m.found THEN <<Str(m.group)>> \o findall(p, s, m.end) ELSE findall(p, s, i + 1)

\* re.findall of the IBAN pattern: the whole words that are IBANs.
RECURSIVE iban_matches(_, _)
iban_matches(s, i) ==
    IF i > Len(s) THEN <<>>
    ELSE IF Boundary(s, i) /\ IsWordAt(s, i)
         THEN (IF IsIban(SubSeq(s, i, WordRunEnd(s, i) - 1)) THEN <<Str(SubSeq(s, i, WordRunEnd(s, i) - 1))>> ELSE <<>>)
              \o iban_matches(s, WordRunEnd(s, i))
         ELSE iban_matches(s, i + 1)

\* anchors: the identifiers found in the first page's text, as found.  A key
\* of the dict that the code leaves out is an empty list here.
Anchors(first_text) ==
    [account_number |-> findall(account_pattern, first_text, 1),
     iban |-> iban_matches(first_text, 1),
     sort_code |-> findall(sort_code_pattern, first_text, 1),
     bvn |-> findall(bvn_pattern, first_text, 1),
     routing_number |-> findall(routing_pattern, first_text, 1)]

\* fingerprint(extracted): bank, currency, country and anchors from the first
\* page's text (the confidence is not part of the record here).
fingerprint(extracted) ==
    LET text_norm == Lower(extracted.first_page_text)
        currency == LET c == FirstHint(currency_patterns, text_norm)
                    IN IF IsStr(c) THEN Str(c.s) ELSE None
        bank == FirstHint(bank_hints, text_norm)
    IN [document_id |-> extracted.document_id,
        pages_count |-> extracted.pages_count,
        bank |-> bank,
        currency |-> currency,
        country |-> IF IsStr(bank) /\ bank.s \in NgBanks THEN Str(<<"N", "G">>) ELSE None,
        anchors |-> Anchors(extracted.first_page_text)]

\* ParserRegistry(parsers=[OpayParser(), NgGenericParser()])
DefaultRegistry == <<"OPAY", "NG_GENERIC">>

\* Parsers of the StatementParser interface a registry can be given besides
\* the two above: one whose supports raises, one whose normalize_rows raises,
\* and one that supports every document and returns a row of its own.
StandInParsers == {"DEFECT_SUPPORTS", "DEFECT_ROWS", "ANY_STATEMENT"}

\* p.supports(fingerprint): "true", "false" or "raises".
supports(parser, fp) ==
    IF parser = "OPAY" THEN (IF IsStr(fp.bank) /\ fp.bank.s \in {"OPAY", "OPAY_BANK", "OPAY_NG"} THEN "true" ELSE "false")
    ELSE IF parser = "NG_GENERIC" THEN (IF fp.country = Str(<<"N", "G">>) THEN "true" ELSE "false")
    ELSE IF parser = "DEFECT_SUPPORTS" THEN "raises"
    ELSE "true"

\* A faulty selection: the last parser that supports the document.
RECURSIVE SelectLast(_, _)
SelectLast(parsers, fp) ==
    IF parsers = <<>> THEN "none"
    ELSE IF supports(parsers[Len(parsers)], fp) = "true" THEN parsers[Len(parsers)]
    ELSE SelectLast(SubSeq(parsers, 1, Len(parsers) - 1), fp)

\* ParserRegistry.select: the first parser, in the order of the list, whose
\* supports returns True; a supports that raises is passed over.
RECURSIVE select(_, _)
select(parsers, fp) ==
    IF parsers = <<>> THEN "none"
    ELSE IF supports(Head(parsers), fp) = "true" THEN Head(parsers)
    ELSE select(Tail(parsers), fp)

(***************************************************************************)
(* OpayParser (src/pdf/statement_parsers.py)                               *)
(***************************************************************************)
header_synonyms == <<
    [key |-> "date", values |-> {<<"d", "a", "t", "e">>, <<"t", "r", "a", "n", " ", "d", "a", "t", "e">>, <<"t", "r", "a", "n", "s", "a", "c", "t", "i", "o", "n", " ", "d", "a", "t", "e">>, <<"v", "a", "l", "u", "e", " ", "d", "a", "t", "e">>}],
    [key |-> "description", values |-> {<<"d", "e", "s", "c", "r", "i", "p", "t", "i", "o", "n">>, <<"n", "a", "r", "r", "a", "t", "i", "o", "n">>, <<"d", "e", "t", "a", "i", "l", "s">>, <<"r", "e", "m", "a", "r", "k">>, <<"p", "a", "r", "t", "i", "c", "u", "l", "a", "r", "s">>}],
    [key |-> "amount", values |-> {<<"a", "m", "o", "u", "n", "t">>, <<"t", "r", "a", "n", "s", "a", "c", "t", "i", "o", "n", " ", "a", "m", "o", "u", "n", "t">>, <<"a", "m", "t">>}],
    [key |-> "balance", values |-> {<<"b", "a", "l", "a", "n", "c", "e">>, <<"r", "u", "n", "n", "i", "n", "g", " ", "b", "a", "l", "a", "n", "c", "e">>, <<"b", "a", "l">>}],
    [key |-> "type", values |-> {<<"t", "y", "p", "e">>, <<"d", "r", "/", "c", "r">>, <<"d", "c">>}],
    [key |-> "credit", values |-> {<<"c", "r", "e", "d", "i", "t">>, <<"c", "r">>}],
    [key |-> "debit", values |-> {<<"d", "e", "b", "i", "t">>, <<"d", "r">>}]>>

\* canon(cell): the canonical key of a header cell, or "".
canon(cell) ==
    LET t == Lower(Strip(cell, Whitespace))
        hits == {i \in DOMAIN header_synonyms : t \in header_synonyms[i].values}
    IN IF hits # {} THEN header_synonyms[CHOOSE i \in hits : \A j \in hits : i <= j].key
       ELSE IF Contains(t, <<"d", "a", "t", "e">>) THEN "date"
       ELSE IF \E x \in {<<"n", "a", "r", "r", "a", "t", "i", "o", "n">>, <<"d", "e", "t", "a", "i", "l", "s">>,
                         <<"d", "e", "s", "c", "r">>, <<"r", "e", "m", "a", "r", "k">>,
                         <<"p", "a", "r", "t", "i", "c", "u", "l", "a", "r">>} : Contains(t, x) THEN "description"
       ELSE IF Contains(t, <<"b", "a", "l", "a", "n", "c", "e">>) THEN "balance"
       ELSE IF Contains(t, <<"a", "m", "o", "u", "n", "t">>) \/ Contains(t, <<"a", "m", "t">>) THEN "amount"
       ELSE ""

\* One mapped cell of an OPAY row: the cell text is kept as a str.
OpayAssign(row, key, val) ==
    IF key = "description"
    THEN [row EXCEPT !.description = Str(Strip((IF IsStr(row.description) THEN row.description.s ELSE <<>>) \o <<" ">> \o val, Whitespace))]
    ELSE IF key = "type" THEN [row EXCEPT !.type = Str(Lower(Strip(val, Whitespace)))]
    ELSE [row EXCEPT ![key] = Str(val)]

RECURSIVE OpayCells(_, _, _, _)
OpayCells(row, raw_row, header, idx) ==
    IF idx > Len(header) THEN row
    ELSE OpayCells(IF canon(header[idx]) # "" /\ idx <= Len(raw_row) THEN OpayAssign(row, canon(header[idx]), raw_row[idx]) ELSE row,
                   raw_row, header, idx + 1)

\* The rows of one table: none unless the header has a date and an amount,
\* credit or debit column.  An OPAY row has no row_seq key (None here).
OpayTable(table, page_index) ==
    IF table = <<>> THEN <<>>
    ELSE LET header == table[1]
             vals == {canon(header[i]) : i \in DOMAIN header}
             blank == [date |-> None, description |-> None, debit |-> None, credit |-> None,
                       amount |-> None, balance |-> None, currency |-> None, source |-> "table",
                       page_index |-> Num(page_index), row_seq |-> None, type |-> None]
         IN IF ~("date" \in vals /\ vals \cap {"amount", "credit", "debit"} # {}) THEN <<>>
            ELSE [r \in 1..(Len(table) - 1) |-> OpayCells(blank, table[r + 1], header, 1)]

RECURSIVE ConcatAll(_)
ConcatAll(seqs) == IF seqs = <<>> THEN <<>> ELSE Head(seqs) \o ConcatAll(Tail(seqs))

\* OpayParser.normalize_rows({"page_tables": ...}).
OpayRows(page_tables) ==
    ConcatAll([p \in DOMAIN page_tables |->
                 ConcatAll([t \in DOMAIN page_tables[p] |-> OpayTable(page_tables[p][t], p - 1)])])

\* The row the stand-in parser ANY_STATEMENT returns for every document.
StandInRow ==
    [date |-> Str(<<"0", "1", "/", "0", "2", "/", "2", "0", "2", "4">>), description |-> Str(<<"F", "e", "e">>),
     debit |-> None, credit |-> None, amount |-> Str(<<"-", "1", ".", "0", "0">>), balance |-> None, currency |-> None,
     source |-> "table", page_index |-> Num(0), row_seq |-> None, type |-> None]

\* parser.normalize_rows(extracted): [raised, rows].  NgGenericParser returns
\* no rows.
parser_normalize_rows(parser, extracted) ==
    IF parser = "OPAY" THEN [raised |-> FALSE, rows |-> OpayRows(extracted.page_tables)]
    ELSE IF parser = "DEFECT_ROWS" THEN [raised |-> TRUE, rows |-> <<>>]
    ELSE IF parser = "ANY_STATEMENT" THEN [raised |-> FALSE, rows |-> <<StandInRow>>]
    ELSE [raised |-> FALSE, rows |-> <<>>]

\* process_pdf: rows = [] when no parser is selected or its normalize_rows
\* raises, the rows of the selected parser otherwise.
TemplateRows(parser, extracted) ==
    IF parser = "none" \/ parser_normalize_rows(parser, extracted).raised THEN <<>>
    ELSE parser_normalize_rows(parser, extracted).rows

(***************************************************************************)
(* Balance detection from the statement text                               *)
(***************************************************************************)
\* re.search(words[:\s-]*([^\n]+), hay, IGNORECASE): group 1 of the leftmost
\* match (the rest of the line after the separators), or None.
PatternGroup(hay, variants) ==
    LET low == Lower(hay)
        hits == {i \in DOMAIN hay : \E v \in DOMAIN variants : WordsEnd(low, variants[v], i) > 0}
        i == CHOOSE x \in hits : \A y \in hits : x <= y
        v == CHOOSE x \in DOMAIN variants : WordsEnd(low, variants[x], i) > 0 /\ \A y \in 1..(x - 1) : WordsEnd(low, variants[y], i) = 0
        g == SkipWhile(hay, WordsEnd(low, variants[v], i), Whitespace \cup {":", "-"})
        e == SkipWhile(hay, g, Range(CodePoints) \ {"\n"})
    IN IF hits = {} THEN None ELSE Str(SubSeq(hay, g, e - 1))

\* find_amount(patterns, hay): the first pattern whose group parses.
RECURSIVE find_amount(_, _, _)
find_amount(patterns, hay, currency_hint) ==
    IF patterns = <<>> THEN None
    ELSE LET amt == _parse_amount(PatternGroup(hay, Head(patterns)), currency_hint)
         IN IF IsDec(amt) THEN amt ELSE find_amount(Tail(patterns), hay, currency_hint)

opening_patterns == <<
    <<<<<<"o", "p", "e", "n", "i", "n", "g">>, <<"b", "a", "l", "a", "n", "c", "e">>>>>>,
    <<<<<<"b", "a", "l", "a", "n", "c", "e">>, <<"b", "r", "o", "u", "g", "h", "t">>, <<"f", "o", "r", "w", "a", "r", "d">>>>>>,
    <<<<<<"s", "t", "a", "r", "t", "i", "n", "g">>, <<"b", "a", "l", "a", "n", "c", "e">>>>, <<<<"s", "t", "a", "r", "t">>, <<"b", "a", "l", "a", "n", "c", "e">>>>>>>>

closing_patterns == <<
    <<<<<<"c", "l", "o", "s", "i", "n", "g">>, <<"b", "a", "l", "a", "n", "c", "e">>>>>>,
    <<<<<<"b", "a", "l", "a", "n", "c", "e">>, <<"c", "a", "r", "r", "i", "e", "d">>, <<"f", "o", "r", "w", "a", "r", "d">>>>>>,
    <<<<<<"e", "n", "d", "i", "n", "g">>, <<"b", "a", "l", "a", "n", "c", "e">>>>, <<<<"e", "n", "d">>, <<"b", "a", "l", "a", "n", "c", "e">>>>>>>>

\* _detect_balances_from_text(texts, currency_hint): [opening, closing].
_detect_balances_from_text(texts, currency_hint) ==
    IF texts = <<>> THEN [opening |-> None, closing |-> None]
    ELSE LET head_text == JoinWith(SubSeq(texts, 1, IF Len(texts) < 2 THEN Len(texts) ELSE 2), <<"\n">>)
             tail_text == JoinWith(SubSeq(texts, IF Len(texts) < 2 THEN 1 ELSE Len(texts) - 1, Len(texts)), <<"\n">>)
         IN [opening |-> find_amount(opening_patterns, head_text, currency_hint),
             closing |-> find_amount(closing_patterns, tail_text, currency_hint)]

(***************************************************************************)
(* ArtifactStorage (src/services/artifact_storage.py)                      *)
(***************************************************************************)
\* _JsonEncoder and json.load on a leaf: a date comes back as its ISO str, a
\* Decimal as its str, None as None.
JsonLeaf(x) == IF IsDate(x) THEN Str(IsoFormat(x)) ELSE IF IsDec(x) THEN DecimalStr(x) ELSE x

JsonTxn(t) == [f \in DOMAIN t |-> IF f = "raw" \/ f = "id" THEN t[f] ELSE JsonLeaf(t[f])]

JsonSummary(s) == [f \in DOMAIN s |-> IF f \in {"transactions_count", "balance_check_passed", "running_balance_rebuilt",
                                                "duplicates_found", "duplicates_removed"}
                                      THEN s[f] ELSE JsonLeaf(s[f])]

\* What get_result reads back after persist wrote result.json.
JsonResult(result) == [result EXCEPT !.validation = JsonSummary(result.validation),
                                     !.transactions = [i \in DOMAIN result.transactions |-> JsonTxn(result.transactions[i])]]

(***************************************************************************)
(* Sample documents: what pdfplumber and the OCR engine give for each page *)
(***************************************************************************)
DocScenario ==
    [content |-> "DocScenario",
     pages |-> <<[text |-> <<>>,
                tables |-> <<<<<<<<"D", "a", "t", "e">>, <<"N", "a", "r", "r", "a", "t", "i", "o", "n">>, <<"D", "e", "b", "i", "t">>, <<"C", "r", "e", "d", "i", "t">>, <<"B", "a", "l", "a", "n", "c", "e">>>>, <<<<"0", "1", "/", "0", "2", "/", "2", "0", "2", "4">>, <<"O", "p", "e", "n", "i", "n", "g">>, <<>>, <<>>>>, <<<<"0", "2", "/", "0", "2", "/", "2", "0", "2", "4">>, <<"C", "o", "f", "f", "e", "e", " ", "S", "h", "o", "p">>, <<"5", "0", "0", ".", "0", "0">>, <<>>, <<"9", "5", "0", "0", ".", "0", "0">>>>, <<<<"0", "3", "/", "0", "2", "/", "2", "0", "2", "4">>, <<"S", "a", "l", "a", "r", "y">>, <<>>, <<"1", "0", "0", "0", "0", ".", "0", "0">>, <<"1", "9", "5", "0", "0", ".", "0", "0">>>>>>>>,
                words |-> <<>>,
                has_images |-> FALSE, ocr_text |-> <<>>]>>]

DocTokens ==
    [content |-> "DocTokens",
     pages |-> <<[text |-> <<"D", "a", "t", "e", " ", "D", "e", "t", "a", "i", "l", "s", " ", "A", "m", "o", "u", "n", "t", "\n", "0", "5", "/", "0", "3", "/", "2", "0", "2", "4", " ", "R", "e", "n", "t", " ", "0", "1", "2", "3", "4", "5", "6", "7", "8", "9", " ", "-", "2", "0", "0", ".", "0", "0", "\n", "0", "6", "/", "0", "3", "/", "2", "0", "2", "4", " ", "G", "i", "f", "t", " ", "5", "0", ".", "0", "0">>,
                tables |-> <<>>,
                words |-> <<[text |-> <<"D", "a", "t", "e">>, x0 |-> 10, x1 |-> 34, top |-> 20],
                           [text |-> <<"D", "e", "t", "a", "i", "l", "s">>, x0 |-> 100, x1 |-> 142, top |-> 20],
                           [text |-> <<"A", "m", "o", "u", "n", "t">>, x0 |-> 220, x1 |-> 256, top |-> 20],
                           [text |-> <<"0", "5", "/", "0", "3", "/", "2", "0", "2", "4">>, x0 |-> 10, x1 |-> 70, top |-> 40],
                           [text |-> <<"R", "e", "n", "t", " ", "0", "1", "2", "3", "4", "5", "6", "7", "8", "9">>, x0 |-> 100, x1 |-> 190, top |-> 40],
                           [text |-> <<"-", "2", "0", "0", ".", "0", "0">>, x0 |-> 220, x1 |-> 262, top |-> 40],
                           [text |-> <<"0", "6", "/", "0", "3", "/", "2", "0", "2", "4">>, x0 |-> 10, x1 |-> 70, top |-> 60],
                           [text |-> <<"G", "i", "f", "t">>, x0 |-> 100, x1 |-> 124, top |-> 60],
                           [text |-> <<"5", "0", ".", "0", "0">>, x0 |-> 220, x1 |-> 250, top |-> 60]>>,
                has_images |-> FALSE, ocr_text |-> <<>>]>>]

DocScan ==
    [content |-> "DocScan",
     pages |-> <<[text |-> <<>>,
                tables |-> <<>>,
                words |-> <<>>,
                has_images |-> TRUE, ocr_text |-> <<"0", "7", "/", "0", "4", "/", "2", "0", "2", "4", " ", "F", "u", "e", "l", " ", "3", "0", ".", "0", "0", " ", "9", "7", "0", ".", "0", "0", "\n", "0", "8", "/", "0", "4", "/", "2", "0", "2", "4", " ", "F", "u", "e", "l", " ", "3", "0", ".", "0", "0", " ", "9", "4", "0", ".", "0", "0">>]>>]

DocEmpty ==
    [content |-> "DocEmpty",
     pages |-> <<[text |-> <<>>,
                tables |-> <<>>,
                words |-> <<>>,
                has_images |-> FALSE, ocr_text |-> <<>>]>>]

DocLong ==
    [content |-> "DocLong",
     pages |-> <<[text |-> <<"A", "c", "c", "e", "s", "s", " ", "B", "a", "n", "k", " ", "N", "G", "N", "\n", "O", "p", "e", "n", "i", "n", "g", " ", "B", "a", "l", "a", "n", "c", "e", ":", " ", "1", "0", "0", ".", "0", "0">>,
                tables |-> <<<<<<<<"D", "a", "t", "e">>, <<"D", "e", "s", "c", "r", "i", "p", "t", "i", "o", "n">>, <<"A", "m", "o", "u", "n", "t">>, <<"B", "a", "l", "a", "n", "c", "e">>>>, <<<<"0", "1", "/", "0", "5", "/", "2", "0", "2", "4">>, <<"A", "c", "c", "t", " ", "1", "2", "3", "4", "5", "6", "7", "8", "9", "0">>, <<"2", "5", ".", "0", "0">>, <<"1", "2", "5", ".", "0", "0">>>>>>>>,
                words |-> <<>>,
                has_images |-> FALSE, ocr_text |-> <<>>],
               [text |-> <<"D", "a", "t", "e", " ", "D", "e", "t", "a", "i", "l", "s", " ", "A", "m", "o", "u", "n", "t", "\n", "0", "2", "/", "0", "5", "/", "2", "0", "2", "4", " ", "F", "e", "e", " ", "5", ".", "0", "0">>,
                tables |-> <<>>,
                words |-> <<[text |-> <<"D", "a", "t", "e">>, x0 |-> 10, x1 |-> 34, top |-> 20],
                           [text |-> <<"D", "e", "t", "a", "i", "l", "s">>, x0 |-> 100, x1 |-> 142, top |-> 20],
                           [text |-> <<"A", "m", "o", "u", "n", "t">>, x0 |-> 220, x1 |-> 256, top |-> 20],
                           [text |-> <<"0", "2", "/", "0", "5", "/", "2", "0", "2", "4">>, x0 |-> 10, x1 |-> 70, top |-> 40],
                           [text |-> <<"F", "e", "e">>, x0 |-> 100, x1 |-> 118, top |-> 40],
                           [text |-> <<"5", ".", "0", "0">>, x0 |-> 220, x1 |-> 244, top |-> 40]>>,
                has_images |-> FALSE, ocr_text |-> <<>>],
               [text |-> <<"C", "l", "o", "s", "i", "n", "g", " ", "B", "a", "l", "a", "n", "c", "e", ":", " ", "1", "2", "0", ".", "0", "0">>,
                tables |-> <<<<<<<<"D", "a", "t", "e">>, <<"D", "e", "s", "c", "r", "i", "p", "t", "i", "o", "n">>, <<"A", "m", "o", "u", "n", "t">>, <<"B", "a", "l", "a", "n", "c", "e">>>>, <<<<"0", "3", "/", "0", "5", "/", "2", "0", "2", "4">>, <<"A", "c", "c", "t", " ", "1", "2", "3", "4", "5", "6", "7", "8", "9", "0">>, <<"2", "5", ".", "0", "0">>, <<"1", "4", "5", ".", "0", "0">>>>>>>>,
                words |-> <<>>,
                has_images |-> FALSE, ocr_text |-> <<>>]>>]

DocOpay ==
    [content |-> "DocOpay",
     pages |-> <<[text |-> <<"O", "P", "a", "y", " ", "s", "t", "a", "t", "e", "m", "e", "n", "t">>,
                tables |-> <<<<<<<<"D", "a", "t", "e">>, <<"N", "a", "r", "r", "a", "t", "i", "o", "n">>, <<"A", "m", "o", "u", "n", "t">>, <<"B", "a", "l", "a", "n", "c", "e">>>>, <<<<"0", "9", "/", "0", "6", "/", "2", "0", "2", "4">>, <<"T", "o", "p", " ", "u", "p">>, <<"7", "5", ".", "0", "0">>, <<"7", "5", ".", "0", "0">>>>>>>>,
                words |-> <<>>,
                has_images |-> FALSE, ocr_text |-> <<>>]>>]

\* A statement whose first page names the holder's account number and BVN
\* and whose one transaction quotes the account number.
AccountNumber == <<"0", "1", "2", "3", "4", "5", "6", "7", "8", "9">>

BvnNumber == <<"2", "2", "3", "3", "4", "4", "5", "5", "6", "6", "7">>

DocAccount ==
    [content |-> "DocAccount",
     pages |-> <<[text |-> <<"A", "c", "c", "o", "u", "n", "t", " ", "N", "u", "m", "b", "e", "r", ":", " ">> \o AccountNumber \o <<"\n", "B", "V", "N", ":", " ">> \o BvnNumber,
                tables |-> <<<<<<<<"D", "a", "t", "e">>, <<"N", "a", "r", "r", "a", "t", "i", "o", "n">>, <<"D", "e", "b", "i", "t">>, <<"C", "r", "e", "d", "i", "t">>, <<"B", "a", "l", "a", "n", "c", "e">>>>, <<<<"0", "2", "/", "0", "5", "/", "2", "0", "2", "4">>, <<"R", "e", "n", "t", " ", "0", "1", "2", "3", "4", "5", "6", "7", "8", "9">>, <<"2", "5", ".", "0", "0">>, <<>>, <<"7", "5", ".", "0", "0">>>>>>>>,
                words |-> <<>>,
                has_images |-> FALSE, ocr_text |-> <<>>]>>]

Catalogue == {DocScenario, DocTokens, DocScan, DocEmpty, DocLong, DocOpay, DocAccount}

\* A scan of three pages: every page needs OCR.
DocScans ==
    [content |-> "DocScans",
     pages |-> <<[text |-> <<>>,
                tables |-> <<>>,
                words |-> <<>>,
                has_images |-> TRUE, ocr_text |-> <<"0", "7", "/", "0", "4", "/", "2", "0", "2", "4", " ", "F", "u", "e", "l", " ", "3", "0", ".", "0", "0">>],
               [text |-> <<>>,
                tables |-> <<>>,
                words |-> <<>>,
                has_images |-> TRUE, ocr_text |-> <<"0", "8", "/", "0", "4", "/", "2", "0", "2", "4", " ", "T", "o", "l", "l", " ", "2", ".", "0", "0">>],
               [text |-> <<>>,
                tables |-> <<>>,
                words |-> <<>>,
                has_images |-> TRUE, ocr_text |-> <<"0", "9", "/", "0", "4", "/", "2", "0", "2", "4", " ", "T", "e", "a", " ", "1", ".", "0", "0">>]>>]

\* A statement whose second page breaks table and word extraction and whose
\* third page, a scan, cannot be rendered.
DocDegraded ==
    [content |-> "DocDegraded",
     pages |-> <<[text |-> <<"S", "t", "a", "t", "e", "m", "e", "n", "t">>,
                tables |-> <<<<<<<<"D", "a", "t", "e">>, <<"D", "e", "s", "c", "r", "i", "p", "t", "i", "o", "n">>, <<"A", "m", "o", "u", "n", "t">>, <<"B", "a", "l", "a", "n", "c", "e">>>>, <<<<"0", "1", "/", "0", "5", "/", "2", "0", "2", "4">>, <<"R", "e", "n", "t">>, <<"2", "5", ".", "0", "0">>, <<"7", "5", ".", "0", "0">>>>>>>>,
                words |-> <<>>,
                has_images |-> FALSE, ocr_text |-> <<>>],
               [text |-> <<"P", "a", "g", "e", " ", "2">>,
                tables |-> <<<<<<<<"D", "a", "t", "e">>, <<"D", "e", "s", "c", "r", "i", "p", "t", "i", "o", "n">>, <<"A", "m", "o", "u", "n", "t">>, <<"B", "a", "l", "a", "n", "c", "e">>>>, <<<<"0", "2", "/", "0", "5", "/", "2", "0", "2", "4">>, <<"P", "a", "y">>, <<"5", "0", ".", "0", "0">>, <<"1", "2", "5", ".", "0", "0">>>>>>>>,
                words |-> <<[text |-> <<"D", "a", "t", "e">>, x0 |-> 10, x1 |-> 34, top |-> 20]>>,
                has_images |-> FALSE, ocr_text |-> <<>>, raises |-> {"tables", "words"}],
               [text |-> <<>>,
                tables |-> <<>>,
                words |-> <<>>,
                has_images |-> TRUE, ocr_text |-> <<"0", "9", "/", "0", "4", "/", "2", "0", "2", "4", " ", "T", "e", "a", " ", "1", ".", "0", "0">>, raises |-> {"render"}]>>]

\* A statement whose second page breaks text extraction.
DocBroken ==
    [content |-> "DocBroken",
     pages |-> <<[text |-> <<"S", "t", "a", "t", "e", "m", "e", "n", "t">>,
                tables |-> <<<<<<<<"D", "a", "t", "e">>, <<"D", "e", "s", "c", "r", "i", "p", "t", "i", "o", "n">>, <<"A", "m", "o", "u", "n", "t">>, <<"B", "a", "l", "a", "n", "c", "e">>>>, <<<<"0", "1", "/", "0", "5", "/", "2", "0", "2", "4">>, <<"R", "e", "n", "t">>, <<"2", "5", ".", "0", "0">>, <<"7", "5", ".", "0", "0">>>>>>>>,
                words |-> <<>>,
                has_images |-> FALSE, ocr_text |-> <<>>],
               [text |-> <<>>,
                tables |-> <<>>,
                words |-> <<>>,
                has_images |-> FALSE, ocr_text |-> <<>>, raises |-> {"text"}],
               [text |-> <<"P", "a", "g", "e", " ", "3">>,
                tables |-> <<<<<<<<"D", "a", "t", "e">>, <<"D", "e", "s", "c", "r", "i", "p", "t", "i", "o", "n">>, <<"A", "m", "o", "u", "n", "t">>, <<"B", "a", "l", "a", "n", "c", "e">>>>, <<<<"0", "3", "/", "0", "5", "/", "2", "0", "2", "4">>, <<"F", "e", "e">>, <<"5", ".", "0", "0">>, <<"7", "0", ".", "0", "0">>>>>>>>,
                words |-> <<>>,
                has_images |-> FALSE, ocr_text |-> <<>>]>>]

\* A scan of three pages: the OCR job of the second page fails in the pool
\* (fut.result() raises) and the engine reads nothing on the third.
DocFaint ==
    [content |-> "DocFaint",
     pages |-> <<[text |-> <<>>,
                tables |-> <<>>,
                words |-> <<>>,
                has_images |-> TRUE, ocr_text |-> <<"0", "7", "/", "0", "4", "/", "2", "0", "2", "4", " ", "F", "u", "e", "l", " ", "3", "0", ".", "0", "0">>],
               [text |-> <<" ">>,
                tables |-> <<>>,
                words |-> <<>>,
                has_images |-> TRUE, ocr_text |-> <<"0", "8", "/", "0", "4", "/", "2", "0", "2", "4", " ", "T", "o", "l", "l", " ", "2", ".", "0", "0">>, raises |-> {"ocr"}],
               [text |-> <<"\n">>,
                tables |-> <<>>,
                words |-> <<>>,
                has_images |-> TRUE, ocr_text |-> <<>>]>>]

\* The documents extract is run on by itself.
ExtractDocs == {DocScans, DocDegraded, DocBroken, DocFaint}

(***************************************************************************)
(* Extractor: extract(content, filename)                                   *)
(***************************************************************************)
\* hashlib.sha256(content).hexdigest()
Sha256(content) == <<"sha256", content>>

\* The tables of a page with every cell stripped.
TablesNorm(page) == [t \in DOMAIN page.tables |->
                       [r \in DOMAIN page.tables[t] |->
                          [c \in DOMAIN page.tables[t][r] |-> Strip(page.tables[t][r][c], Whitespace)]]]

\* The operations of process_single_page that raise an exception on a page
\* (a malformed page): among "text", "tables", "words" and "render".  The
\* pages of a well-formed document carry no such field.
Raises(page) == IF "raises" \in DOMAIN page THEN page.raises ELSE {}

\* tables_norm: extract_tables is tried inside try/except, an exception gives [].
TablesOf(page) == IF "tables" \in Raises(page) THEN <<>> ELSE TablesNorm(page)

\* words: extract_words runs only without tables, inside try/except.
WordsOf(page) == IF TablesOf(page) # <<>> \/ "words" \in Raises(page) THEN <<>> ELSE page.words

\* The OCR gate of process_single_page; ocr_pages is the list extract fills
\* after every worker has finished.
NeedsOcr(page, ocr_pages) ==
    /\ config.OCR
    /\ Len(ocr_pages) < config.OCR_MAX_PAGES
    /\ Strip(page.text, Whitespace) = <<>>

\* What process_single_page returns for a page; ocr tells whether the OCR
\* branch ran.
PageData(page, ocr) ==
    LET ocr_applied == ocr /\ Raises(page) \cap {"render", "ocr"} = {} /\ Strip(page.ocr_text, Whitespace) # <<>>
        text == IF ocr_applied THEN page.ocr_text ELSE page.text
    IN [text |-> IF Len(text) > config.MAX_CHARS_PER_PAGE THEN SubSeq(text, 1, config.MAX_CHARS_PER_PAGE) ELSE text,
        tables |-> TablesOf(page),
        words |-> WordsOf(page),
        is_image_like |-> page.has_images /\ Strip(page.text, Whitespace) = <<>>,
        ocr_applied |-> ocr_applied]

\* list(range(0, n))
RangeList(n) == [i \in 1..n |-> i - 1]

Keys(map) == [i \in DOMAIN map |-> map[i][1]]

Lookup(map, idx) == (CHOOSE i \in DOMAIN map : map[i][1] = idx)

\* A faulty assembly: results_map is read in insertion order.
CompletionOrder(map) == Keys(map)

\* The order in which extract assembles results_map: sorted(results_map.keys()).
AssemblyOrder(map) == SortInts(Keys(map))

DataOf(map, idx) == map[CHOOSE i \in DOMAIN map : map[i][1] = idx][2]

\* pdfplumber.open(BytesIO(content)): the document the bytes hold.
Document(content) == CHOOSE d \in Catalogue \cup ExtractDocs : d.content = content

\* extract runs the workers one after another in the calling thread.
Sequential == config.PDF_MAX_WORKERS = 1 \/ Len(page_indices) = 1

Busy == {i \in DOMAIN status : status[i] \in {"running", "ocr"}}

\* process_pdf is called: extract computes the document_id, opens the
\* document, counts its pages and applies the page limit.
Call(content, args) ==
    /\ pc = "idle"
    /\ calls < MaxRuns
    /\ calls' = calls + 1
    /\ LET n == Len(Document(content).pages)
           limited == n > config.MAX_PAGES
       IN /\ pages_count' = n
          /\ page_indices' = RangeList(IF limited THEN config.MAX_PAGES ELSE n)
          /\ status' = [i \in 0..((IF limited THEN config.MAX_PAGES ELSE n) - 1) |-> "pending"]
          /\ log' = IF limited THEN {"pdf_pages_exceed_limit"} ELSE {}
    /\ request' = [content |-> content, account_id |-> args.account_id,
                   opening_balance |-> args.opening_balance, closing_balance |-> args.closing_balance,
                   drop_duplicates |-> args.drop_duplicates]
    /\ pc' = "extracting"
    /\ UNCHANGED <<runs, result_file, ocr_section, pools_built, unit_call, parser_registry, storage, ocr_pool, returned, page_data, results_map, ocr_held, doc_extracted,
                   doc_fingerprint, doc_rows, metrics, parsed_txns, validated_txns, summary, masked_txns>>

\* process_pdf called directly on a processor that already exists.
Submit(content, args) == Call(content, args) /\ UNCHANGED <<runs, result_file, ocr_section, pools_built, unit_call, intake, parser_registry, config>>

\* A worker starts process_single_page(idx).
StartPage(idx) ==
    /\ pc = "extracting"
    /\ idx \in DOMAIN status /\ status[idx] = "pending"
    /\ IF Sequential
       THEN Busy = {} /\ \A j \in DOMAIN status : j < idx => status[j] = "collected"
       ELSE Cardinality(Busy) < config.PDF_MAX_WORKERS
    /\ status' = [status EXCEPT ![idx] = "running"]
    /\ UNCHANGED <<runs, result_file, ocr_section, pools_built, unit_call, intake, parser_registry, config, storage, ocr_pool, calls, returned, pc, request, pages_count, page_indices, page_data,
                   results_map, ocr_held, log, doc_extracted, doc_fingerprint, doc_rows, metrics, parsed_txns, validated_txns,
                   summary, masked_txns>>

\* A faulty semaphore: as many permits as the page pool has workers.
PoolSizedPermits == config.PDF_MAX_WORKERS + 1

\* Semaphore(max(1, int(getattr(config, "OCR_MAX_CONCURRENT", 2))))
OcrPermits == IF config.OCR_MAX_CONCURRENT > 1 THEN config.OCR_MAX_CONCURRENT ELSE 1

\* The worker of a page that needs OCR enters the semaphore and creates the
\* OCR pool when there is none.  ocr_pages is still empty: extract appends to
\* it only when it assembles the result.
AcquireOcr(idx) ==
    /\ pc = "extracting"
    /\ idx \in DOMAIN status /\ status[idx] = "running"
    /\ "text" \notin Raises(Document(request.content).pages[idx + 1])
    /\ NeedsOcr(Document(request.content).pages[idx + 1], <<>>)
    /\ Cardinality(ocr_held) < OcrPermits
    /\ ocr_held' = ocr_held \cup {idx}
    /\ ocr_pool' = TRUE
    /\ status' = [status EXCEPT ![idx] = "ocr"]
    /\ UNCHANGED <<runs, result_file, ocr_section, pools_built, unit_call, intake, parser_registry, config, storage, calls, returned, pc, request, pages_count, page_indices, page_data,
                   results_map, log, doc_extracted, doc_fingerprint, doc_rows, metrics, parsed_txns, validated_txns,
                   summary, masked_txns>>

\* process_single_page returns: after the OCR branch (leaving the semaphore)
\* or without it.
FinishPage(idx) ==
    /\ pc = "extracting"
    /\ idx \in DOMAIN status
    /\ LET page == Document(request.content).pages[idx + 1]
       IN \/ /\ status[idx] = "ocr"
             /\ page_data' = (idx :> PageData(page, TRUE)) @@ page_data
          \/ /\ status[idx] = "running"
             /\ "text" \notin Raises(page)
             /\ ~NeedsOcr(page, <<>>)
             /\ page_data' = (idx :> PageData(page, FALSE)) @@ page_data
    /\ ocr_held' = ocr_held \ {idx}
    /\ status' = [status EXCEPT ![idx] = "done"]
    /\ UNCHANGED <<runs, result_file, ocr_section, pools_built, unit_call, intake, parser_registry, config, storage, ocr_pool, calls, returned, pc, request, pages_count, page_indices,
                   results_map, log, doc_extracted, doc_fingerprint, doc_rows, metrics, parsed_txns, validated_txns,
                   summary, masked_txns>>

\* page.extract_text() raises in the worker of a page: nothing catches it
\* inside process_single_page.
FailPage(idx) ==
    /\ pc = "extracting"
    /\ idx \in DOMAIN status /\ status[idx] = "running"
    /\ "text" \in Raises(Document(request.content).pages[idx + 1])
    /\ status' = [status EXCEPT ![idx] = "failed"]
    /\ UNCHANGED <<runs, result_file, ocr_section, pools_built, unit_call, intake, parser_registry, config, storage, ocr_pool, calls, returned, pc, request, pages_count, page_indices, page_data,
                   results_map, ocr_held, log, doc_extracted, doc_fingerprint, doc_rows, metrics, parsed_txns, validated_txns,
                   summary, masked_txns>>

\* extract meets the exception of a worker: in the calling thread when the
\* pages run one after another, else at fut.result(), and leaves the
\* ThreadPoolExecutor block once every submitted worker has ended.  Nothing
\* in extract or process_pdf catches it.
Reraise(idx) ==
    /\ pc = "extracting"
    /\ idx \in DOMAIN status /\ status[idx] = "failed"
    /\ Sequential \/ \A j \in DOMAIN status : status[j] \in {"done", "collected", "failed"}
    /\ pc' = "raised"
    /\ UNCHANGED <<runs, result_file, ocr_section, pools_built, unit_call, intake, parser_registry, config, storage, ocr_pool, calls, returned, status, request, pages_count, page_indices, page_data,
                   results_map, ocr_held, log, doc_extracted, doc_fingerprint, doc_rows, metrics, parsed_txns, validated_txns,
                   summary, masked_txns>>

\* extract takes a finished worker's result: results_map[idx] = data.
Collect(idx) ==
    /\ pc = "extracting"
    /\ idx \in DOMAIN status /\ status[idx] = "done"
    /\ results_map' = Append(results_map, <<idx, page_data[idx]>>)
    /\ status' = [status EXCEPT ![idx] = "collected"]
    /\ UNCHANGED <<runs, result_file, ocr_section, pools_built, unit_call, intake, parser_registry, config, storage, ocr_pool, calls, returned, pc, request, pages_count, page_indices, page_data,
                   ocr_held, log, doc_extracted, doc_fingerprint, doc_rows, metrics, parsed_txns, validated_txns,
                   summary, masked_txns>>

\* The ExtractionResult extract builds from results_map.
ExtractionResult(content, count, map) ==
    LET order == AssemblyOrder(map)
        page_texts == [i \in DOMAIN order |-> DataOf(map, order[i]).text]
    IN [document_id |-> Sha256(content),
        pages_count |-> count,
        page_texts |-> page_texts,
        page_tables |-> [i \in DOMAIN order |-> DataOf(map, order[i]).tables],
        page_words |-> [i \in DOMAIN order |-> DataOf(map, order[i]).words],
        image_based_pages |-> [i \in DOMAIN order |-> DataOf(map, order[i]).is_image_like],
        first_page_text |-> IF page_texts = <<>> THEN <<>> ELSE page_texts[1],
        ocr_pages |-> SelectSeq(order, LAMBDA idx : DataOf(map, idx).ocr_applied)]

\* Every worker has been collected: extract assembles and returns.  Its
\* locals end with it; results_map is kept for the rest of the call.
Assemble ==
    /\ pc = "extracting"
    /\ \A i \in DOMAIN status : status[i] = "collected"
    /\ doc_extracted' = ExtractionResult(request.content, pages_count, results_map)
    /\ pc' = "extracted"
    /\ pages_count' = 0
    /\ page_indices' = <<>>
    /\ status' = <<>>
    /\ page_data' = <<>>
    /\ UNCHANGED <<runs, result_file, ocr_section, pools_built, unit_call, intake, parser_registry, config, storage, ocr_pool, calls, returned, request, results_map, ocr_held, log, doc_fingerprint,
                   doc_rows, metrics, parsed_txns, validated_txns, summary, masked_txns>>

(***************************************************************************)
(* Orchestrator: process_pdf                                               *)
(***************************************************************************)
\* ArtifactStorage.has(document_id): result.json exists.
has(document_id) == document_id \in DOMAIN storage.results

\* ArtifactStorage.get_result(document_id): json.load of result.json.
get_result(document_id) == storage.results[document_id]

\* ArtifactStorage.persist(document_id, artifacts, result, raw_pdf): result.json
\* holds the JSON form of the result.
persist(document_id, res) == [storage EXCEPT !.results = (document_id :> JsonResult(res)) @@ storage.results]

Ids(transactions) == [i \in DOMAIN transactions |-> transactions[i].id]

\* What a call hands back to its caller, with the arguments it was given.
Returned(res, hit) ==
    [request |-> request, document_id |-> res.document_id, ids |-> Ids(res.transactions),
     pages_count |-> res.pages_count, cache_hit |-> hit]

\* process_pdf returns res; the locals of the call end with it.
Return(res, hit) ==
    /\ returned' = returned \cup {Returned(res, hit)}
    /\ pc' = "idle"
    /\ request' = None
    /\ pages_count' = 0
    /\ page_indices' = <<>>
    /\ status' = <<>>
    /\ page_data' = <<>>
    /\ results_map' = <<>>
    /\ log' = {}
    /\ doc_extracted' = None
    /\ doc_fingerprint' = None
    /\ doc_rows' = <<>>
    /\ metrics' = None
    /\ parsed_txns' = <<>>
    /\ validated_txns' = <<>>
    /\ summary' = None
    /\ masked_txns' = <<>>

\* After extract: the stored result is returned when the storage has one;
\* otherwise the document is fingerprinted.
CacheCheck ==
    /\ pc = "extracted"
    /\ IF storage.present /\ has(doc_extracted.document_id)
       THEN /\ Return(get_result(doc_extracted.document_id), TRUE)
            /\ UNCHANGED <<runs, result_file, ocr_section, pools_built, unit_call, intake, parser_registry, config, storage, ocr_pool, calls, ocr_held>>
       ELSE /\ doc_fingerprint' = fingerprint(doc_extracted)
            /\ pc' = "fingerprinted"
            /\ UNCHANGED <<runs, result_file, ocr_section, pools_built, unit_call, intake, parser_registry, config, storage, ocr_pool, calls, returned, request, pages_count, page_indices, status,
                           page_data, results_map, ocr_held, log, doc_extracted, doc_rows, metrics, parsed_txns,
                           validated_txns, summary, masked_txns>>

\* The registry's parser, when it supports the document, provides the rows;
\* the generic normalizer runs when it gives none.
SelectParser ==
    /\ pc = "fingerprinted"
    /\ \E rows \in {TemplateRows(select(parser_registry, doc_fingerprint), doc_extracted)} :
          /\ doc_rows' = rows
          /\ pc' = IF rows # <<>> THEN "rows_ready" ELSE "tier_tables"
    /\ UNCHANGED <<runs, result_file, ocr_section, pools_built, unit_call, intake, parser_registry, config, storage, ocr_pool, calls, returned, request, pages_count, page_indices, status, page_data,
                   results_map, ocr_held, log, doc_extracted, doc_fingerprint, metrics, parsed_txns, validated_txns,
                   summary, masked_txns>>

\* normalize_rows, tier A.  The metrics reach the metadata when normalize_rows
\* ends here without an early return.
TierTables ==
    /\ pc = "tier_tables"
    /\ \E tables \in {TablesTier(doc_extracted, doc_fingerprint.currency)} :
          /\ doc_rows' = tables.rows
          /\ pc' = IF RunsTokens(doc_extracted, tables) THEN "tier_tokens"
                   ELSE IF RunsText(doc_extracted, tables, NoRun) THEN "tier_text"
                   ELSE "rows_ready"
          /\ metrics' = IF RunsTokens(doc_extracted, tables) \/ RunsText(doc_extracted, tables, NoRun) \/ tables.stopped
                        THEN metrics
                        ELSE Metrics(doc_extracted, tables.rows, FALSE)
    /\ UNCHANGED <<runs, result_file, ocr_section, pools_built, unit_call, intake, parser_registry, config, storage, ocr_pool, calls, returned, request, pages_count, page_indices, status, page_data,
                   results_map, ocr_held, log, doc_extracted, doc_fingerprint, parsed_txns, validated_txns,
                   summary, masked_txns>>

\* normalize_rows, tier B: the rows rebuilt from the word tokens are appended.
TierTokens ==
    /\ pc = "tier_tokens"
    /\ \E tokens \in {TokensTier(doc_extracted, doc_fingerprint.currency)} :
          /\ doc_rows' = doc_rows \o tokens.rows
          /\ pc' = IF RunsText(doc_extracted, Ended(doc_rows), tokens) THEN "tier_text" ELSE "rows_ready"
          /\ metrics' = IF RunsText(doc_extracted, Ended(doc_rows), tokens) \/ tokens.stopped
                        THEN metrics
                        ELSE Metrics(doc_extracted, doc_rows \o tokens.rows, TRUE)
    /\ UNCHANGED <<runs, result_file, ocr_section, pools_built, unit_call, intake, parser_registry, config, storage, ocr_pool, calls, returned, request, pages_count, page_indices, status, page_data,
                   results_map, ocr_held, log, doc_extracted, doc_fingerprint, parsed_txns, validated_txns,
                   summary, masked_txns>>

\* normalize_rows, tier C: the rows matched in the text lines are appended.
TierText ==
    /\ pc = "tier_text"
    /\ \E text \in {TextTier(doc_extracted, doc_fingerprint.currency)} :
          /\ doc_rows' = doc_rows \o text.rows
          /\ pc' = "rows_ready"
          /\ metrics' = IF text.stopped THEN metrics
                        ELSE Metrics(doc_extracted, doc_rows \o text.rows, doc_extracted.page_words # <<>>)
    /\ UNCHANGED <<runs, result_file, ocr_section, pools_built, unit_call, intake, parser_registry, config, storage, ocr_pool, calls, returned, request, pages_count, page_indices, status, page_data,
                   results_map, ocr_held, log, doc_extracted, doc_fingerprint, parsed_txns, validated_txns,
                   summary, masked_txns>>

Parse ==
    /\ pc = "rows_ready"
    /\ parsed_txns' = parse_transactions(doc_rows, doc_extracted.document_id, request.account_id)
    /\ pc' = "parsed"
    /\ UNCHANGED <<runs, result_file, ocr_section, pools_built, unit_call, intake, parser_registry, config, storage, ocr_pool, calls, returned, request, pages_count, page_indices, status, page_data,
                   results_map, ocr_held, log, doc_extracted, doc_fingerprint, doc_rows, metrics, validated_txns,
                   summary, masked_txns>>

\* Balances the caller did not give are looked for in the text, then
\* validate_statement runs.
Validate ==
    /\ pc = "parsed"
    /\ \E auto \in {_detect_balances_from_text(doc_extracted.page_texts, doc_fingerprint.currency)} :
         LET detect == request.opening_balance = None \/ request.closing_balance = None
             opening_balance == IF detect /\ ~IsDec(request.opening_balance) THEN auto.opening ELSE request.opening_balance
             closing_balance == IF detect /\ ~IsDec(request.closing_balance) THEN auto.closing ELSE request.closing_balance
         IN \E v \in {validate_statement(parsed_txns, opening_balance, closing_balance, request.drop_duplicates)} :
               /\ validated_txns' = v.txns
               /\ summary' = v.summary
    /\ pc' = "validated"
    /\ UNCHANGED <<runs, result_file, ocr_section, pools_built, unit_call, intake, parser_registry, config, storage, ocr_pool, calls, returned, request, pages_count, page_indices, status, page_data,
                   results_map, ocr_held, log, doc_extracted, doc_fingerprint, doc_rows, metrics, parsed_txns,
                   masked_txns>>

Mask ==
    /\ pc = "validated"
    /\ masked_txns' = mask_pii(validated_txns)
    /\ pc' = "masked"
    /\ UNCHANGED <<runs, result_file, ocr_section, pools_built, unit_call, intake, parser_registry, config, storage, ocr_pool, calls, returned, request, pages_count, page_indices, status, page_data,
                   results_map, ocr_held, log, doc_extracted, doc_fingerprint, doc_rows, metrics, parsed_txns, validated_txns,
                   summary>>

\* The result dict of process_pdf.
Result ==
    [document_id |-> doc_extracted.document_id,
     pages_count |-> doc_extracted.pages_count,
     fingerprint |-> doc_fingerprint,
     validation |-> summary,
     transactions |-> masked_txns,
     ocr |-> [enabled |-> config.OCR, applied_pages |-> doc_extracted.ocr_pages, max_pages |-> config.OCR_MAX_PAGES],
     metrics |-> metrics]

\* The result is built, persisted when there is a storage, and returned.
Finish ==
    /\ pc = "masked"
    /\ storage' = IF storage.present THEN persist(doc_extracted.document_id, Result) ELSE storage
    /\ Return(Result, FALSE)
    /\ UNCHANGED <<runs, result_file, ocr_section, pools_built, unit_call, intake, parser_registry, config, ocr_pool, calls, ocr_held>>

(***************************************************************************)
(* The pipeline as a state machine                                         *)
(***************************************************************************)
\* The settings a process can run with: the defaults of src/pdf/config.py with
\* a small page limit, and one departure from them at a time.
BaseConfig ==
    [HAVE_BABEL |-> FALSE, EARLY_STOP_MIN_ROWS |-> 0, MAX_PAGES |-> SmallPageLimit,
     PDF_MAX_WORKERS |-> MaxWorkers, OCR |-> TRUE, OCR_MAX_PAGES |-> OCR_MAX_PAGES_DEFAULT,
     OCR_MAX_CONCURRENT |-> OCR_MAX_CONCURRENT_DEFAULT, MAX_CHARS_PER_PAGE |-> MAX_CHARS_PER_PAGE_DEFAULT]

Configs == {BaseConfig,
            [BaseConfig EXCEPT !.MAX_PAGES = MAX_PAGES_DEFAULT],
            [BaseConfig EXCEPT !.PDF_MAX_WORKERS = 1],
            [BaseConfig EXCEPT !.HAVE_BABEL = TRUE],
            [BaseConfig EXCEPT !.EARLY_STOP_MIN_ROWS = 1],
            [BaseConfig EXCEPT !.OCR = FALSE]}

\* The arguments a caller passes with the document.
Arguments ==
    {[account_id |-> Str(<<"a", "c", "c">>), opening_balance |-> Dec(10000 * Unit), closing_balance |-> None, drop_duplicates |-> FALSE],
     [account_id |-> None, opening_balance |-> None, closing_balance |-> None, drop_duplicates |-> TRUE]}

\* No call is running and none has been made.
Quiet ==
    /\ runs = <<>>
    /\ result_file = NoFile
    /\ ocr_section = <<>>
    /\ pools_built = <<>>
    /\ unit_call = None
    /\ intake = None
    /\ ocr_pool = FALSE
    /\ calls = 0
    /\ returned = {}
    /\ pc = "idle"
    /\ request = None
    /\ pages_count = 0
    /\ page_indices = <<>>
    /\ status = <<>>
    /\ page_data = <<>>
    /\ results_map = <<>>
    /\ ocr_held = {}
    /\ log = {}
    /\ doc_extracted = None
    /\ doc_fingerprint = None
    /\ doc_rows = <<>>
    /\ metrics = None
    /\ parsed_txns = <<>>
    /\ validated_txns = <<>>
    /\ summary = None
    /\ masked_txns = <<>>

\* The processors of the model: every configuration with a storage, and the
\* base configuration without one (storage=None).
Processors == {[config |-> c, present |-> TRUE] : c \in Configs} \cup {[config |-> BaseConfig, present |-> FALSE]}

Init ==
    /\ parser_registry = DefaultRegistry
    /\ \E p \in Processors :
          /\ config = p.config
          /\ storage = [present |-> p.present, results |-> <<>>]
    /\ Quiet

Next ==
    \/ \E content \in {d.content : d \in Catalogue}, args \in Arguments : Submit(content, args)
    \/ \E idx \in DOMAIN status : StartPage(idx)
    \/ \E idx \in DOMAIN status : AcquireOcr(idx)
    \/ \E idx \in DOMAIN status : FinishPage(idx)
    \/ \E idx \in DOMAIN status : Collect(idx)
    \/ Assemble
    \/ CacheCheck
    \/ SelectParser
    \/ TierTables
    \/ TierTokens
    \/ TierText
    \/ Parse
    \/ Validate
    \/ Mask
    \/ Finish

Spec == Init /\ [][Next]_vars

(***************************************************************************)
(* process_pdf after extract on sample statements: one-page documents      *)
(* holding one table of up to MaxRows rows.                                *)
(***************************************************************************)
\* The rows of a sample table.
MaxRows == 3

TableHeader == <<<<"D", "a", "t", "e">>, <<"N", "a", "r", "r", "a", "t", "i", "o", "n">>, <<"D", "e", "b", "i", "t">>, <<"C", "r", "e", "d", "i", "t">>, <<"B", "a", "l", "a", "n", "c", "e">>>>

\* A debit with its balance.
RowRent == <<<<"0", "1", "/", "0", "5", "/", "2", "0", "2", "4">>, <<"R", "e", "n", "t", " ", "0", "1", "2", "3", "4", "5", "6", "7", "8", "9">>, <<"2", "5", ".", "0", "0">>, <<>>, <<"7", "5", ".", "0", "0">>>>

\* The same payment in another spelling, without a balance.
RowRentAgain == <<<<"0", "1", "/", "0", "5", "/", "2", "0", "2", "4">>, <<"r", "e", "n", "t", " ", " ", "0", "1", "2", "3", "4", "5", "6", "7", "8", "9">>, <<"2", "5", ".", "0", "0">>, <<>>, <<>>>>

\* The same payment but for half a cent.
RowRentHalfCent == <<<<"0", "1", "/", "0", "5", "/", "2", "0", "2", "4">>, <<"R", "e", "n", "t", " ", "0", "1", "2", "3", "4", "5", "6", "7", "8", "9">>, <<"2", "5", ".", "0", "0", "5">>, <<>>, <<>>>>

\* A credit; the account number follows another number.
RowPay == <<<<"0", "2", "/", "0", "5", "/", "2", "0", "2", "4">>, <<"P", "a", "y", " ", "1", "2", " ", "0", "1", "2", "3", "4", "5", "6", "7", "8", "9">>, <<>>, <<"5", "0", ".", "0", "0">>, <<"1", "2", "5", ".", "0", "2">>>>

\* A debit and a credit in one row.
RowGift == <<<<"0", "2", "/", "0", "5", "/", "2", "0", "2", "4">>, <<"G", "i", "f", "t", " ", "9", "8", "7", "6", "5", "4", "3", "2", "1", "0">>, <<"3", ".", "0", "0">>, <<"5", ".", "0", "0">>, <<>>>>

\* A zero debit.
RowFee == <<<<"0", "3", "/", "0", "5", "/", "2", "0", "2", "4">>, <<"F", "e", "e">>, <<"0", ".", "0", "0">>, <<>>, <<"1", "2", "5", ".", "0", "3">>>>

RowPool == {RowRent, RowRentAgain, RowRentHalfCent, RowPay, RowGift, RowFee}

SampleTables == UNION {[1..k -> RowPool] : k \in 0..MaxRows}

\* The page pdfplumber gives for a sample table.
TablePage(rows) == [text |-> <<>>, tables |-> <<<<TableHeader>> \o rows>>, words |-> <<>>,
                    has_images |-> FALSE, ocr_text |-> <<>>]

\* The arguments the sample statements are processed with.
RowArguments ==
    {[account_id |-> None, opening_balance |-> None, closing_balance |-> None, drop_duplicates |-> FALSE],
     [account_id |-> None, opening_balance |-> Dec(100 * Unit), closing_balance |-> None, drop_duplicates |-> TRUE],
     [account_id |-> None, opening_balance |-> Dec(100 * Unit), closing_balance |-> Dec(125 * Unit), drop_duplicates |-> FALSE],
     [account_id |-> None, opening_balance |-> None, closing_balance |-> Dec(75 * Unit), drop_duplicates |-> TRUE]}

\* process_pdf has extracted a sample statement.
InitRows ==
    /\ runs = <<>>
    /\ result_file = NoFile
    /\ ocr_section = <<>>
    /\ pools_built = <<>>
    /\ unit_call = None
    /\ intake = None
    /\ parser_registry = DefaultRegistry
    /\ config = BaseConfig
    /\ storage = [present |-> FALSE, results |-> <<>>]
    /\ ocr_pool = FALSE
    /\ calls = 1
    /\ returned = {}
    /\ pc = "extracted"
    /\ pages_count = 0
    /\ page_indices = <<>>
    /\ status = <<>>
    /\ page_data = <<>>
    /\ ocr_held = {}
    /\ log = {}
    /\ doc_fingerprint = None
    /\ doc_rows = <<>>
    /\ metrics = None
    /\ parsed_txns = <<>>
    /\ validated_txns = <<>>
    /\ summary = None
    /\ masked_txns = <<>>
    /\ \E rows \in SampleTables, args \in RowArguments :
          /\ request = [content |-> rows, account_id |-> args.account_id,
                        opening_balance |-> args.opening_balance, closing_balance |-> args.closing_balance,
                        drop_duplicates |-> args.drop_duplicates]
          /\ results_map = <<<<0, PageData(TablePage(rows), FALSE)>>>>
          /\ doc_extracted = ExtractionResult(rows, 1, <<<<0, PageData(TablePage(rows), FALSE)>>>>)

NextRows ==
    \/ CacheCheck
    \/ SelectParser
    \/ TierTables
    \/ TierTokens
    \/ TierText
    \/ Parse
    \/ Validate
    \/ Mask

SpecRows == InitRows /\ [][NextRows]_vars

(***************************************************************************)
(* extract by itself, on scans and on malformed pages, under the settings  *)
(* of the page pool and of the OCR semaphore.                              *)
(***************************************************************************)
\* An ocr_max_pages below the number of pages of a scan.
SmallOcrLimit == 1

\* A page pool of one worker or of more workers than the semaphore has
\* permits; OCR_MAX_CONCURRENT unset to 0, 1 or the default; ocr_max_pages
\* small or the default; no page limit.
ExtractConfigs ==
    {[BaseConfig EXCEPT !.MAX_PAGES = MAX_PAGES_DEFAULT, !.PDF_MAX_WORKERS = w, !.OCR_MAX_CONCURRENT = c,
                        !.OCR_MAX_PAGES = m] :
        w \in {1, MaxWorkers + 1}, c \in {0, 1, OCR_MAX_CONCURRENT_DEFAULT}, m \in {SmallOcrLimit, OCR_MAX_PAGES_DEFAULT}}

InitExtract ==
    /\ parser_registry = DefaultRegistry
    /\ config \in ExtractConfigs
    /\ storage = [present |-> FALSE, results |-> <<>>]
    /\ Quiet

NextExtract ==
    \/ \E d \in ExtractDocs, args \in Arguments : Submit(d.content, args)
    \/ \E idx \in DOMAIN status : StartPage(idx)
    \/ \E idx \in DOMAIN status : AcquireOcr(idx)
    \/ \E idx \in DOMAIN status : FinishPage(idx)
    \/ \E idx \in DOMAIN status : FailPage(idx)
    \/ \E idx \in DOMAIN status : Collect(idx)
    \/ \E idx \in DOMAIN status : Reraise(idx)
    \/ Assemble

SpecExtract == InitExtract /\ [][NextExtract]_vars

(***************************************************************************)
(* src/pdf/pdf_pipeline/orchestrator.py: process_pdf_file, the file-level  *)
(* entry point that checks a file before it hands it to the processor      *)
(***************************************************************************)
\* getenv_int("FF_MAX_PDF_SIZE_MB", 20)
MAX_PDF_SIZE_MB_DEFAULT == 20

max_bytes == MAX_PDF_SIZE_MB_DEFAULT * 1024 * 1024

\* _is_pdf_path: path.lower().endswith(".pdf")
_is_pdf_path(path) == LastN(Lower(path), 4) = <<".", "p", "d", "f">>

\* A size check that lets every file through.
NoSizeLimit(size) == FALSE

\* isinstance(size, int) and size > max_bytes; size is None when getsize raised.
ExceedsLimit(size) == size # None /\ size.v > max_bytes

\* The files on disk: what os.path.getsize, open and pypdf give for each.
\* kind "missing" is a path with no file; clear is what the PdfWriter writes
\* for an encrypted file, key the password that decrypts it.
FilePaths == {<<"s", ".", "p", "d", "f">>, <<"S", ".", "P", "D", "F">>, <<"s", ".", "t", "x", "t">>}

FileDocs == {DocScenario, DocTokens, DocScan}

FileKey == <<"k">>

Files ==
    {[path |-> p, kind |-> "missing", size |-> None, bytes |-> None, clear |-> None, rewritable |-> FALSE] : p \in FilePaths}
    \cup {[path |-> p, kind |-> "unreadable", size |-> Num(n), bytes |-> "garbage", clear |-> None, rewritable |-> FALSE] :
             p \in FilePaths, n \in {0, max_bytes + 1}}
    \cup {[path |-> p, kind |-> "plain", size |-> Num(n), bytes |-> d.content, clear |-> d.content, rewritable |-> TRUE] :
             p \in FilePaths, n \in {max_bytes, max_bytes + 1}, d \in FileDocs}
    \cup {[path |-> p, kind |-> "encrypted", size |-> Num(max_bytes), bytes |-> <<"encrypted", d.content>>, clear |-> d.content, rewritable |-> w] :
             p \in FilePaths, d \in {DocScenario}, w \in BOOLEAN}

Passwords == {None, Str(<<>>), Str(FileKey), Str(<<"x">>)}

\* _decrypt_if_needed(pdf_bytes, password): <<maybe_decrypted_bytes, error_code_if_any>>,
\* "None" for no error code.
_decrypt_if_needed(file, password) ==
    IF file.kind = "unreadable" THEN <<None, "ERROR_PDF_LOAD_FAILED">>
    ELSE IF file.kind # "encrypted" THEN <<file.bytes, "None">>
    ELSE IF password = None \/ password.s = <<>> THEN <<None, "ERROR_ENCRYPTED">>
    ELSE IF password.s # FileKey THEN <<None, "ERROR_PASSWORD_INCORRECT">>
    ELSE IF ~file.rewritable THEN <<None, "ERROR_DECRYPTION_FAILED">>
    ELSE <<file.clear, "None">>

\* analyze_pdf_structure's is_text_searchable: some page has words or text.
is_text_searchable(content) ==
    \E i \in DOMAIN Document(content).pages :
        LET page == Document(content).pages[i]
        IN page.words # <<>> \/ Strip(page.text, Whitespace) # <<>>

\* process_pdf_file(file_path, account_id, password, drop_duplicates) is called.
Receive(file, account_id, password, drop_duplicates) ==
    /\ intake = None
    /\ pc = "idle" /\ calls = 0
    /\ intake' = [stage |-> "called", file |-> file, account_id |-> account_id, password |-> password,
                  drop_duplicates |-> drop_duplicates, content |-> None, searchable |-> FALSE, result |-> None]
    /\ UNCHANGED <<runs, result_file, ocr_section, pools_built, unit_call, parser_registry, config, storage, ocr_pool, calls, returned, pc, request, pages_count, page_indices, status, page_data,
                   results_map, ocr_held, log, doc_extracted, doc_fingerprint, doc_rows, metrics, parsed_txns, validated_txns,
                   summary, masked_txns>>

\* The locals of the pipeline are untouched by the checks of process_pdf_file.
IntakeOnly ==
    UNCHANGED <<runs, result_file, ocr_section, pools_built, unit_call, parser_registry, config, storage, ocr_pool, calls, returned, pc, request, pages_count, page_indices, status, page_data,
                results_map, ocr_held, log, doc_extracted, doc_fingerprint, doc_rows, metrics, parsed_txns, validated_txns,
                summary, masked_txns>>

\* if not _is_pdf_path(file_path): return the status
CheckType ==
    /\ intake # None /\ intake.stage = "called"
    /\ intake' = IF _is_pdf_path(intake.file.path)
                 THEN [intake EXCEPT !.stage = "typed"]
                 ELSE [intake EXCEPT !.stage = "returned", !.result = [status |-> "ERROR_INVALID_TYPE"]]
    /\ IntakeOnly

\* os.path.getsize in a try, then the size limit.
CheckSize ==
    /\ intake # None /\ intake.stage = "typed"
    /\ intake' = IF ExceedsLimit(intake.file.size)
                 THEN [intake EXCEPT !.stage = "returned", !.result = [status |-> "ERROR_FILE_TOO_LARGE"]]
                 ELSE [intake EXCEPT !.stage = "sized"]
    /\ IntakeOnly

\* content = _read_file_bytes(file_path), outside any try: a path with no
\* file makes open raise out of process_pdf_file.
ReadBytes ==
    /\ intake # None /\ intake.stage = "sized"
    /\ intake' = IF intake.file.kind = "missing"
                 THEN [intake EXCEPT !.stage = "raised"]
                 ELSE [intake EXCEPT !.stage = "read", !.content = intake.file.bytes]
    /\ IntakeOnly

\* _decrypt_if_needed and the return of its error code.
Decrypt ==
    /\ intake # None /\ intake.stage = "read"
    /\ LET r == _decrypt_if_needed(intake.file, intake.password)
       IN intake' = IF r[2] # "None"
                    THEN [intake EXCEPT !.stage = "returned", !.content = None, !.result = [status |-> r[2]]]
                    ELSE [intake EXCEPT !.stage = "decrypted", !.content = r[1]]
    /\ IntakeOnly

\* analyze_pdf_structure in a try.
Analyze ==
    /\ intake # None /\ intake.stage = "decrypted"
    /\ intake' = [intake EXCEPT !.stage = "analysed", !.searchable = is_text_searchable(intake.content)]
    /\ IntakeOnly

\* PdfStatementProcessor(ocr_enabled=not is_text_searchable) and the call of
\* its process_pdf with no opening and no closing balance.
Delegate ==
    /\ intake # None /\ intake.stage = "analysed"
    /\ intake' = [intake EXCEPT !.stage = "delegated"]
    /\ config' = [config EXCEPT !.OCR = IF intake.searchable THEN FALSE ELSE config.OCR]
    /\ Call(intake.content, [account_id |-> intake.account_id, opening_balance |-> None,
                             closing_balance |-> None, drop_duplicates |-> intake.drop_duplicates])

\* process_pdf has returned: the analysis is added and the result returned.
Enrich ==
    /\ intake # None /\ intake.stage = "delegated"
    /\ pc = "idle" /\ returned # {}
    /\ intake' = [intake EXCEPT !.stage = "returned",
                                !.result = [status |-> "OK", is_text_searchable |-> intake.searchable,
                                            ocr_planned |-> ~intake.searchable]]
    /\ IntakeOnly

InitIntake ==
    /\ parser_registry = DefaultRegistry
    /\ config = [BaseConfig EXCEPT !.MAX_PAGES = MAX_PAGES_DEFAULT]
    /\ storage = [present |-> FALSE, results |-> <<>>]
    /\ Quiet

NextIntake ==
    \/ \E file \in Files, password \in Passwords, args \in Arguments :
          Receive(file, args.account_id, password, args.drop_duplicates)
    \/ CheckType
    \/ CheckSize
    \/ ReadBytes
    \/ Decrypt
    \/ Analyze
    \/ Delegate
    \/ \E idx \in DOMAIN status : StartPage(idx)
    \/ \E idx \in DOMAIN status : AcquireOcr(idx)
    \/ \E idx \in DOMAIN status : FinishPage(idx)
    \/ \E idx \in DOMAIN status : Collect(idx)
    \/ Assemble
    \/ CacheCheck
    \/ SelectParser
    \/ TierTables
    \/ TierTokens
    \/ TierText
    \/ Parse
    \/ Validate
    \/ Mask
    \/ Finish
    \/ Enrich

SpecIntake == InitIntake /\ [][NextIntake]_vars

(***************************************************************************)
(* Processors whose registry holds other parsers, in every order: one      *)
(* call of process_pdf on each                                             *)
(***************************************************************************)
MaxParsers == 2

\* The lists of at most MaxParsers different parsers.
Registries ==
    {r \in UNION {[1..n -> {"OPAY", "NG_GENERIC"} \cup StandInParsers] : n \in 0..MaxParsers} :
        \A i, j \in DOMAIN r : r[i] = r[j] => i = j}

RegistryDocs == {DocOpay, DocScenario, DocTokens, DocScan}

InitRegistry ==
    /\ parser_registry \in Registries
    /\ config = [BaseConfig EXCEPT !.MAX_PAGES = MAX_PAGES_DEFAULT]
    /\ storage = [present |-> FALSE, results |-> <<>>]
    /\ Quiet

NextRegistry ==
    \/ \E d \in RegistryDocs, args \in Arguments : calls = 0 /\ Submit(d.content, args)
    \/ \E idx \in DOMAIN status : StartPage(idx)
    \/ \E idx \in DOMAIN status : AcquireOcr(idx)
    \/ \E idx \in DOMAIN status : FinishPage(idx)
    \/ \E idx \in DOMAIN status : Collect(idx)
    \/ Assemble
    \/ CacheCheck
    \/ SelectParser
    \/ TierTables
    \/ TierTokens
    \/ TierText
    \/ Parse
    \/ Validate
    \/ Mask
    \/ Finish

SpecRegistry == InitRegistry /\ [][NextRegistry]_vars

(***************************************************************************)
(* _parse_amount called on its own, on amount texts with and without the   *)
(* marks of a negative amount                                              *)
(***************************************************************************)
\* The texts: an opening mark, the digits, a closing mark or suffix.
AmountOpenings == {<<>>, <<"-">>, <<"(">>, <<"(", "-">>, <<"N", "G", "N", " ">>}

AmountDigits == {<<"5", "0", "0", ".", "0", "0">>, <<"1", ",", "2", "3", "4", ".", "5", "6">>, <<"7">>, <<"0", ".", "0", "0">>}

AmountClosings == {<<>>, <<")">>, <<" ", "D", "R">>, <<" ", "C", "R">>, <<")", " ", "C", "R">>, <<" ", "d", "r">>, <<")", " ", "D", "R">>}

AmountTexts == {o \o d \o c : o \in AmountOpenings, d \in AmountDigits, c \in AmountClosings}

\* No call of process_pdf or process_pdf_file is running or has been made.
NoPipeline ==
    /\ runs = <<>> /\ result_file = NoFile /\ ocr_section = <<>> /\ pools_built = <<>>
    /\ intake = None
    /\ parser_registry = DefaultRegistry
    /\ storage = [present |-> FALSE, results |-> <<>>]
    /\ ocr_pool = FALSE /\ calls = 0 /\ returned = {} /\ pc = "idle" /\ request = None
    /\ pages_count = 0 /\ page_indices = <<>> /\ status = <<>> /\ page_data = <<>> /\ results_map = <<>>
    /\ ocr_held = {} /\ log = {} /\ doc_extracted = None /\ doc_fingerprint = None /\ doc_rows = <<>>
    /\ metrics = None /\ parsed_txns = <<>> /\ validated_txns = <<>> /\ summary = None /\ masked_txns = <<>>

\* Only the direct call moves.
UnitOnly ==
    UNCHANGED <<runs, result_file, ocr_section, pools_built, intake, parser_registry, config, storage, ocr_pool, calls, returned, pc,
                request, pages_count,
                page_indices, status, page_data, results_map, ocr_held, log, doc_extracted, doc_fingerprint, doc_rows,
                metrics, parsed_txns, validated_txns, summary, masked_txns>>

InitAmount ==
    /\ unit_call \in {[method |-> "_parse_amount", text |-> Str(t), returned |-> FALSE, value |-> None] : t \in AmountTexts}
    /\ config \in {BaseConfig, [BaseConfig EXCEPT !.HAVE_BABEL = TRUE]}
    /\ NoPipeline

\* self._parse_amount(text, currency_hint) returns.
ParseAmount ==
    /\ unit_call # None /\ unit_call.method = "_parse_amount" /\ ~unit_call.returned
    /\ unit_call' = [unit_call EXCEPT !.returned = TRUE, !.value = _parse_amount(unit_call.text, None)]
    /\ UnitOnly

NextAmount == ParseAmount

SpecAmount == InitAmount /\ [][NextAmount]_vars

(***************************************************************************)
(* parse_transactions called on its own, on lists of normalized rows       *)
(***************************************************************************)
MaxBuilderRows == 3

\* A normalized row with no cell read.
BlankRow == [date |-> None, description |-> None, debit |-> None, credit |-> None, amount |-> None, balance |-> None,
             currency |-> None, source |-> "table", page_index |-> Num(0), row_seq |-> Num(0)]

\* The rows: a debit with its balance, a description alone, a balance alone,
\* a rule of dashes, a row of blanks, an empty row, and a row whose amount is
\* still the text of its cell (as OpayParser leaves it).
BuilderRows ==
    {[BlankRow EXCEPT !.date = Date(2024, 5, 1), !.description = Str(<<"R", "e", "n", "t">>), !.debit = Dec(25 * Unit),
                      !.amount = Dec(0 - 25 * Unit), !.balance = Dec(75 * Unit)],
     [BlankRow EXCEPT !.description = Str(<<" ", "B", "/", "F", " ", ":">>)],
     [BlankRow EXCEPT !.balance = Dec(100 * Unit)],
     [BlankRow EXCEPT !.description = Str(<<"-", "-", " ", "|", " ", ":">>)],
     [BlankRow EXCEPT !.description = Str(<<" ", "\t">>), !.date = Date(2024, 5, 2)],
     BlankRow,
     [BlankRow EXCEPT !.amount = Str(<<"1", "0", "0", ".", "0", "0">>), !.row_seq = None]}

\* The lists of at most MaxBuilderRows rows, each row numbered by its place.
BuilderInputs ==
    {[i \in DOMAIN rows |-> IF rows[i].row_seq = None THEN rows[i] ELSE [rows[i] EXCEPT !.row_seq = Num(i - 1)]] :
        rows \in UNION {[1..n -> BuilderRows] : n \in 0..MaxBuilderRows}}

InitBuilder ==
    /\ unit_call \in {[method |-> "parse_transactions", rows |-> rows, returned |-> FALSE, value |-> <<>>] : rows \in BuilderInputs}
    /\ config = BaseConfig
    /\ NoPipeline

\* self.parse_transactions(rows, document_id, account_id) returns.
ParseTransactions ==
    /\ unit_call # None /\ unit_call.method = "parse_transactions" /\ ~unit_call.returned
    /\ unit_call' = [unit_call EXCEPT !.returned = TRUE,
                                      !.value = parse_transactions(unit_call.rows, Sha256("doc"), None)]
    /\ UnitOnly

NextBuilder == ParseTransactions

SpecBuilder == InitBuilder /\ [][NextBuilder]_vars

(***************************************************************************)
(* validate_statement called on its own, on the transactions of a statement *)
(* table in every order                                                    *)
(***************************************************************************)
MaxValidated == 3

\* The rows of the statement tables: two payments of one day with one
\* narration, and a credit of the next day.
ValidatorRows == {RowRent, RowRentHalfCent, RowPay}

ValidatorTables == UNION {[1..n -> ValidatorRows] : n \in 0..MaxValidated}

\* The transactions the pipeline makes of a table, through OpayParser or
\* through the table tier of the generic normalize_rows.
Produced(table, parser) ==
    parse_transactions(IF parser = "OPAY" THEN OpayRows(<<<<<<TableHeader>> \o table>>>>)
                       ELSE TableRowsOfPage(<<<<TableHeader>> \o table>>, 0, None),
                       Sha256(table), None)

\* The list l in the order given by the permutation order of its places.
Permuted(l, order) == [i \in DOMAIN l |-> l[order[i]]]

InitValidator ==
    /\ unit_call \in {[method |-> "validate_statement", table |-> t, parser |-> p, order |-> o, opening_balance |-> a.opening_balance,
                        drop_duplicates |-> a.drop_duplicates, returned |-> FALSE, value |-> None] :
                          t \in ValidatorTables, p \in {"OPAY", "GENERIC"}, o \in UNION {Permutations(1..n) : n \in 0..MaxValidated},
                          a \in {a \in RowArguments : a.closing_balance = None}}
    /\ Len(unit_call.order) = Len(unit_call.table)
    /\ config = BaseConfig
    /\ NoPipeline

\* self.validate_statement(transactions, opening_balance, None, drop_duplicates) returns.
ValidateStatement ==
    /\ unit_call # None /\ unit_call.method = "validate_statement" /\ ~unit_call.returned
    /\ LET transactions == Produced(unit_call.table, unit_call.parser)
       IN /\ Len(transactions) = Len(unit_call.table)
          /\ unit_call' = [unit_call EXCEPT !.returned = TRUE,
                                            !.value = validate_statement(Permuted(transactions, unit_call.order), unit_call.opening_balance,
                                                                         None, unit_call.drop_duplicates)]
    /\ UnitOnly

NextValidator == ValidateStatement

SpecValidator == InitValidator /\ [][NextValidator]_vars

(***************************************************************************)
(* Two process_pdf calls side by side on one ArtifactStorage: the steps of *)
(* has, get_result and persist on the result.json of one document          *)
(***************************************************************************)
\* The calls that run side by side.
MaxPeers == 2

\* The write() calls json.dump and close make for one result.json.
FileChunks == 2

\* extract on a document none of whose pages raises, as one value.
Extracted(doc) ==
    LET n == Len(doc.pages)
        processed == IF n > config.MAX_PAGES THEN config.MAX_PAGES ELSE n
    IN ExtractionResult(doc.content, n,
                        [i \in 1..processed |-> <<i - 1, PageData(doc.pages[i], NeedsOcr(doc.pages[i], <<>>))>>])

\* process_pdf past the fingerprint, as one value: the rows of the selected
\* parser or of normalize_rows, parse_transactions, the balances found in the
\* text, validate_statement, mask_pii and the result dict.
ProcessedFrom(extracted, fp, args) ==
    LET template == TemplateRows(select(parser_registry, fp), extracted)
        generic == IF template # <<>> THEN [rows |-> template, metrics |-> None] ELSE normalize_rows(extracted, fp)
        txns == parse_transactions(generic.rows, extracted.document_id, args.account_id)
        auto == _detect_balances_from_text(extracted.page_texts, fp.currency)
        detect == args.opening_balance = None \/ args.closing_balance = None
        opening_balance == IF detect /\ ~IsDec(args.opening_balance) THEN auto.opening ELSE args.opening_balance
        closing_balance == IF detect /\ ~IsDec(args.closing_balance) THEN auto.closing ELSE args.closing_balance
        v == validate_statement(txns, opening_balance, closing_balance, args.drop_duplicates)
    IN [document_id |-> extracted.document_id,
        pages_count |-> extracted.pages_count,
        fingerprint |-> fp,
        validation |-> v.summary,
        transactions |-> mask_pii(v.txns),
        ocr |-> [enabled |-> config.OCR, applied_pages |-> extracted.ocr_pages, max_pages |-> config.OCR_MAX_PAGES],
        metrics |-> generic.metrics]

\* process_pdf past the cache check, as one value.
Processed(doc, args) == ProcessedFrom(Extracted(doc), fingerprint(Extracted(doc)), args)

\* The k-th piece of the JSON text json.dump writes for a result.
Chunk(k, result) == <<k, JsonResult(result)>>

\* result.json as open(result_path, "w") leaves it before the first
\* write reaches it.
Emptied == [exists |-> TRUE, chunks |-> <<>>]

\* result.json as persist leaves it when nothing interferes.
Written(result) == [exists |-> TRUE, chunks |-> [k \in 1..FileChunks |-> Chunk(k, result)]]

\* The file holds every piece of one JSON text.
Complete(file) ==
    /\ file.exists
    /\ DOMAIN file.chunks = 1..FileChunks
    /\ \A k \in 1..FileChunks : file.chunks[k] = <<k, file.chunks[1][2]>>

\* A faulty reader: whatever pieces the file holds are taken for a result
\* whose list ends where the text ends.
LoadsPieces(file) ==
    IF DOMAIN file.chunks = {} THEN [raised |-> TRUE, value |-> None]
    ELSE LET k == CHOOSE k \in DOMAIN file.chunks : TRUE
         IN [raised |-> FALSE,
             value |-> IF Complete(file) THEN file.chunks[k][2] ELSE [file.chunks[k][2] EXCEPT !.transactions = <<>>]]

\* json.load(f) in get_result: a text that is empty, cut short or holed
\* raises (json.JSONDecodeError); a whole text gives the result back.
json_load(file) ==
    IF Complete(file) THEN [raised |-> FALSE, value |-> file.chunks[1][2]]
    ELSE [raised |-> TRUE, value |-> None]

\* A one-table document and an OPAY document within the page limit.
CacheDocs == {DocScenario, DocOpay}

\* A call that has not started.
NewRun(content, args) ==
    [pc |-> "called", content |-> content, args |-> args, extracted |-> None, fingerprint |-> None, pos |-> 0,
     get_failed |-> FALSE, log |-> {}, result |-> None]

\* Only the calls and result.json move.
PeersOnly ==
    UNCHANGED <<ocr_section, pools_built, unit_call, intake, parser_registry, config, storage, ocr_pool, calls, returned, pc,
                request, pages_count, page_indices, status, page_data, results_map, ocr_held, log, doc_extracted,
                doc_fingerprint, doc_rows, metrics, parsed_txns, validated_txns, summary, masked_txns>>

\* extracted = self.extract(content, filename)
PeerExtract(r) ==
    /\ r \in DOMAIN runs /\ runs[r].pc = "called"
    /\ runs' = [runs EXCEPT ![r].pc = "extracted", ![r].extracted = Extracted(Document(runs[r].content))]
    /\ UNCHANGED result_file
    /\ PeersOnly

\* A faulty has: no document is ever found.
NeverStored(file) == FALSE

\* ArtifactStorage.has: os.path.exists(result.json), whoever wrote it and
\* with whatever arguments.
result_exists(file) == file.exists

\* self.storage.has(extracted.document_id)
PeerHas(r) ==
    /\ r \in DOMAIN runs /\ runs[r].pc = "extracted"
    /\ runs' = [runs EXCEPT ![r].pc = IF result_exists(result_file) THEN "hit" ELSE "computing"]
    /\ UNCHANGED result_file
    /\ PeersOnly

\* self.storage.get_result(...) inside try: the loaded result is returned;
\* 'except Exception: pass' leads to the full processing.
PeerGetResult(r) ==
    /\ r \in DOMAIN runs /\ runs[r].pc = "hit"
    /\ LET loaded == json_load(result_file)
       IN runs' = IF loaded.raised
                  THEN [runs EXCEPT ![r].pc = "computing", ![r].get_failed = TRUE]
                  ELSE [runs EXCEPT ![r].pc = "returned", ![r].result = loaded.value,
                                    ![r].log = runs[r].log \cup {"pdf_cache_hit"}]
    /\ UNCHANGED result_file
    /\ PeersOnly

\* fingerprint = self.fingerprint(extracted)
PeerFingerprint(r) ==
    /\ r \in DOMAIN runs /\ runs[r].pc = "computing"
    /\ runs' = [runs EXCEPT ![r].pc = "fingerprinted", ![r].fingerprint = fingerprint(runs[r].extracted)]
    /\ UNCHANGED result_file
    /\ PeersOnly

\* The parser's or normalize_rows' rows ... mask_pii and the result dict
\* (lines 1369-1421).
PeerCompute(r) ==
    /\ r \in DOMAIN runs /\ runs[r].pc = "fingerprinted"
    /\ runs' = [runs EXCEPT ![r].pc = "persisting",
                            ![r].result = ProcessedFrom(runs[r].extracted, runs[r].fingerprint, runs[r].args)]
    /\ UNCHANGED result_file
    /\ PeersOnly

\* persist: raw.pdf and extracted.json are written (no reader of the cache
\* looks at them), then open(result_path, "w") creates or empties result.json.
PeerOpen(r) ==
    /\ r \in DOMAIN runs /\ runs[r].pc = "persisting"
    /\ result_file' = Emptied
    /\ runs' = [runs EXCEPT ![r].pc = "writing", ![r].pos = 0]
    /\ PeersOnly

\* json.dump: the next piece goes to the writer's own position in the file.
PeerWrite(r) ==
    /\ r \in DOMAIN runs /\ runs[r].pc = "writing" /\ runs[r].pos < FileChunks
    /\ result_file' = [result_file EXCEPT !.chunks = ((runs[r].pos + 1) :> Chunk(runs[r].pos + 1, runs[r].result)) @@ result_file.chunks]
    /\ runs' = [runs EXCEPT ![r].pos = runs[r].pos + 1]
    /\ PeersOnly

\* The file is closed, persist returns and process_pdf returns its result.
PeerReturn(r) ==
    /\ r \in DOMAIN runs /\ runs[r].pc = "writing" /\ runs[r].pos = FileChunks
    /\ runs' = [runs EXCEPT ![r].pc = "returned", ![r].log = runs[r].log \cup {"pdf_persisted"}]
    /\ UNCHANGED result_file
    /\ PeersOnly

\* The same bytes and the same arguments for every call, and no result.json
\* yet: a call that starts after the other has returned finds it stored.
InitCache ==
    /\ parser_registry = DefaultRegistry
    /\ config = BaseConfig
    /\ storage = [present |-> TRUE, results |-> <<>>]
    /\ ocr_section = <<>> /\ pools_built = <<>> /\ unit_call = None /\ intake = None
    /\ ocr_pool = FALSE /\ calls = 0 /\ returned = {} /\ pc = "idle" /\ request = None
    /\ pages_count = 0 /\ page_indices = <<>> /\ status = <<>> /\ page_data = <<>> /\ results_map = <<>>
    /\ ocr_held = {} /\ log = {} /\ doc_extracted = None /\ doc_fingerprint = None /\ doc_rows = <<>>
    /\ metrics = None /\ parsed_txns = <<>> /\ validated_txns = <<>> /\ summary = None /\ masked_txns = <<>>
    /\ \E d \in CacheDocs, args \in Arguments :
          /\ runs = [r \in 1..MaxPeers |-> NewRun(d.content, args)]
          /\ result_file = NoFile

NextCache ==
    \/ \E r \in 1..MaxPeers : PeerExtract(r)
    \/ \E r \in 1..MaxPeers : PeerHas(r)
    \/ \E r \in 1..MaxPeers : PeerGetResult(r)
    \/ \E r \in 1..MaxPeers : PeerFingerprint(r)
    \/ \E r \in 1..MaxPeers : PeerCompute(r)
    \/ \E r \in 1..MaxPeers : PeerOpen(r)
    \/ \E r \in 1..MaxPeers : PeerWrite(r)
    \/ \E r \in 1..MaxPeers : PeerReturn(r)

SpecCache == InitCache /\ [][NextCache]_vars

\* The calls on the same bytes differ in their arguments as they please;
\* result.json is absent, or was left empty by a persist that was interrupted.
InitCacheKey ==
    /\ parser_registry = DefaultRegistry
    /\ config = BaseConfig
    /\ storage = [present |-> TRUE, results |-> <<>>]
    /\ ocr_section = <<>> /\ pools_built = <<>> /\ unit_call = None /\ intake = None
    /\ ocr_pool = FALSE /\ calls = 0 /\ returned = {} /\ pc = "idle" /\ request = None
    /\ pages_count = 0 /\ page_indices = <<>> /\ status = <<>> /\ page_data = <<>> /\ results_map = <<>>
    /\ ocr_held = {} /\ log = {} /\ doc_extracted = None /\ doc_fingerprint = None /\ doc_rows = <<>>
    /\ metrics = None /\ parsed_txns = <<>> /\ validated_txns = <<>> /\ summary = None /\ masked_txns = <<>>
    /\ runs \in [1..MaxPeers -> {NewRun(DocScenario.content, args) : args \in Arguments}]
    /\ result_file \in {NoFile, Emptied}

SpecCacheKey == InitCacheKey /\ [][NextCache]_vars

(***************************************************************************)
(* The OCR section of process_single_page step by step: the semaphore, the *)
(* lazily created process pool, the job and its result                     *)
(***************************************************************************)
\* self._ocr_pool is None
NoPool == pools_built = <<>>

\* A faulty exit: the permit is given back only when the section ends
\* without an exception.
ReleasedUnlessFailed(held, idx, failed) == IF failed THEN held ELSE held \ {idx}

\* The end of 'with self._ocr_semaphore': the permit is given back however
\* the block ends.
Released(held, idx, failed) == held \ {idx}

\* The OCR attempt of a page ends in an exception: page.to_image raises, or
\* fut.result() does.
OcrFails(page) == Raises(page) \cap {"render", "ocr"} # {}

\* The worker of a page that needs OCR enters 'with self._ocr_semaphore'.
EnterOcr(idx) ==
    /\ pc = "extracting"
    /\ idx \in DOMAIN status /\ status[idx] = "running"
    /\ "text" \notin Raises(Document(request.content).pages[idx + 1])
    /\ NeedsOcr(Document(request.content).pages[idx + 1], <<>>)
    /\ Cardinality(ocr_held) < OcrPermits
    /\ ocr_held' = ocr_held \cup {idx}
    /\ status' = [status EXCEPT ![idx] = "ocr"]
    /\ ocr_section' = (idx :> "entered") @@ ocr_section
    /\ UNCHANGED <<runs, result_file, pools_built, unit_call, intake, parser_registry, config, storage, ocr_pool, calls, returned, pc,
                   request, pages_count, page_indices, page_data, results_map, log, doc_extracted, doc_fingerprint,
                   doc_rows, metrics, parsed_txns, validated_txns, summary, masked_txns>>

\* The page is rendered (an exception ends the attempt) and the worker reads
\* self._ocr_pool: 'if self._ocr_pool is None'.
CheckPool(idx) ==
    /\ pc = "extracting"
    /\ idx \in DOMAIN ocr_section /\ ocr_section[idx] = "entered"
    /\ ocr_section' = [ocr_section EXCEPT ![idx] =
                          IF "render" \in Raises(Document(request.content).pages[idx + 1]) THEN "ended"
                          ELSE IF NoPool THEN "constructing" ELSE "submitting"]
    /\ UNCHANGED <<runs, result_file, pools_built, unit_call, intake, parser_registry, config, storage, ocr_pool, calls, returned, pc,
                   request, pages_count, page_indices, status, page_data, results_map, ocr_held, log, doc_extracted,
                   doc_fingerprint, doc_rows, metrics, parsed_txns, validated_txns, summary, masked_txns>>

\* self._ocr_pool = ProcessPoolExecutor(...): a pool is constructed and
\* becomes the processor's pool.
BuildPool(idx) ==
    /\ pc = "extracting"
    /\ idx \in DOMAIN ocr_section /\ ocr_section[idx] = "constructing"
    /\ pools_built' = Append(pools_built, {})
    /\ ocr_pool' = TRUE
    /\ ocr_section' = [ocr_section EXCEPT ![idx] = "submitting"]
    /\ UNCHANGED <<runs, result_file, unit_call, intake, parser_registry, config, storage, calls, returned, pc,
                   request, pages_count, page_indices, status, page_data, results_map, ocr_held, log, doc_extracted,
                   doc_fingerprint, doc_rows, metrics, parsed_txns, validated_txns, summary, masked_txns>>

\* fut = self._ocr_pool.submit(...): the job goes to the pool the attribute
\* names now, the one constructed last.
SubmitJob(idx) ==
    /\ pc = "extracting"
    /\ idx \in DOMAIN ocr_section /\ ocr_section[idx] = "submitting"
    /\ pools_built' = [pools_built EXCEPT ![Len(pools_built)] = @ \cup {<<calls, idx>>}]
    /\ ocr_section' = [ocr_section EXCEPT ![idx] = "waiting"]
    /\ UNCHANGED <<runs, result_file, unit_call, intake, parser_registry, config, storage, ocr_pool, calls, returned, pc,
                   request, pages_count, page_indices, status, page_data, results_map, ocr_held, log, doc_extracted,
                   doc_fingerprint, doc_rows, metrics, parsed_txns, validated_txns, summary, masked_txns>>

\* fut.result() returns the text or raises, or the attempt had ended at the
\* rendering; 'except Exception: pass'; the with block ends and
\* process_single_page returns the page's data.
LeaveOcr(idx) ==
    /\ pc = "extracting"
    /\ idx \in DOMAIN ocr_section /\ ocr_section[idx] \in {"waiting", "ended"}
    /\ LET page == Document(request.content).pages[idx + 1]
       IN /\ page_data' = (idx :> PageData(page, TRUE)) @@ page_data
          /\ ocr_held' = Released(ocr_held, idx, OcrFails(page))
    /\ ocr_section' = [i \in DOMAIN ocr_section \ {idx} |-> ocr_section[i]]
    /\ status' = [status EXCEPT ![idx] = "done"]
    /\ UNCHANGED <<runs, result_file, pools_built, unit_call, intake, parser_registry, config, storage, ocr_pool, calls, returned, pc,
                   request, pages_count, page_indices, results_map, log, doc_extracted, doc_fingerprint,
                   doc_rows, metrics, parsed_txns, validated_txns, summary, masked_txns>>

\* process_single_page returns for a page that does not go to OCR.
ReturnPage(idx) ==
    /\ pc = "extracting"
    /\ idx \in DOMAIN status /\ status[idx] = "running"
    /\ LET page == Document(request.content).pages[idx + 1]
       IN /\ "text" \notin Raises(page)
          /\ ~NeedsOcr(page, <<>>)
          /\ page_data' = (idx :> PageData(page, FALSE)) @@ page_data
    /\ status' = [status EXCEPT ![idx] = "done"]
    /\ UNCHANGED <<runs, result_file, ocr_section, pools_built, unit_call, intake, parser_registry, config, storage, ocr_pool, calls,
                   returned, pc, request, pages_count, page_indices, results_map, ocr_held, log, doc_extracted,
                   doc_fingerprint, doc_rows, metrics, parsed_txns, validated_txns, summary, masked_txns>>

\* Scans whose OCR attempts succeed, fail at the rendering, fail in the pool
\* or read nothing, next to pages with a text layer.
OcrDocs == {DocScans, DocDegraded, DocFaint}

\* The page pool and the semaphore as for extract, ocr_max_pages the default.
OcrConfigs == {c \in ExtractConfigs : c.OCR_MAX_PAGES = OCR_MAX_PAGES_DEFAULT}

InitOcr ==
    /\ parser_registry = DefaultRegistry
    /\ config \in OcrConfigs
    /\ storage = [present |-> FALSE, results |-> <<>>]
    /\ Quiet

NextOcr ==
    \/ \E d \in OcrDocs : Submit(d.content, CHOOSE args \in Arguments : ~args.drop_duplicates)
    \/ \E idx \in DOMAIN status : StartPage(idx)
    \/ \E idx \in DOMAIN status : EnterOcr(idx)
    \/ \E idx \in DOMAIN status : CheckPool(idx)
    \/ \E idx \in DOMAIN status : BuildPool(idx)
    \/ \E idx \in DOMAIN status : SubmitJob(idx)
    \/ \E idx \in DOMAIN status : LeaveOcr(idx)
    \/ \E idx \in DOMAIN status : ReturnPage(idx)
    \/ \E idx \in DOMAIN status : Collect(idx)
    \/ Assemble

SpecOcr == InitOcr /\ [][NextOcr]_vars

\* The page numbers the workers of these documents run on.
OcrPageIndices == UNION {0..(Len(d.pages) - 1) : d \in OcrDocs}

\* Every thread that can take a step takes one in the end: the page workers
\* are threads of the ThreadPoolExecutor (or the calling thread), the OCR job
\* runs in a process of its own and fut.result() returns or raises, and
\* extract itself runs on.
OcrScheduling ==
    /\ \A idx \in OcrPageIndices :
          /\ WF_vars(StartPage(idx))
          /\ WF_vars(EnterOcr(idx))
          /\ WF_vars(CheckPool(idx))
          /\ WF_vars(BuildPool(idx))
          /\ WF_vars(SubmitJob(idx))
          /\ WF_vars(LeaveOcr(idx))
          /\ WF_vars(ReturnPage(idx))
          /\ WF_vars(Collect(idx))
    /\ WF_vars(Assemble)

SpecOcrFair == SpecOcr /\ OcrScheduling

(***************************************************************************)
(* infer_column_bands and assign_tokens_to_columns on a header row         *)
(***************************************************************************)
MaxHeaderTokens == 3

\* Left edges (pt) that put header words less than 15pt, 15 to 20pt and more
\* than 20pt apart.
HeaderEdges == {0, 14, 15, 20, 21, 40}

HeaderWidths == {4, 5}

HeaderWords == {[text |-> <<"h">>, x0 |-> x, x1 |-> x + w, top |-> 0] : x \in HeaderEdges, w \in HeaderWidths}

HeaderRows == UNION {[1..n -> HeaderWords] : n \in 1..MaxHeaderTokens}

InitBands ==
    /\ unit_call \in {[method |-> "infer_column_bands", tokens |-> row, returned |-> FALSE, value |-> None,
                        columns |-> None] : row \in HeaderRows}
    /\ config = BaseConfig
    /\ NoPipeline

\* bands = infer_column_bands(header_row["tokens"]) and
\* assign_tokens_to_columns(header_row["tokens"], bands) return.
InferBands ==
    /\ unit_call # None /\ unit_call.method = "infer_column_bands" /\ ~unit_call.returned
    /\ LET bands == infer_column_bands(unit_call.tokens)
       IN unit_call' = [unit_call EXCEPT !.returned = TRUE, !.value = bands,
                                         !.columns = assign_tokens_to_columns(unit_call.tokens, bands)]
    /\ UnitOnly

NextBands == InferBands

SpecBands == InitBands /\ [][NextBands]_vars

(***************************************************************************)
(* Properties                                                              *)
(***************************************************************************)
\* A call is past extract.
PastExtract == pc \in {"extracted", "fingerprinted", "tier_tables", "tier_tokens", "tier_text",
                       "rows_ready", "parsed", "validated", "masked"}

\* The rows of the call are final.
PastRows == pc \in {"rows_ready", "parsed", "validated", "masked"}

\* C1: two runs of process_pdf on the same bytes with the same arguments hand
\* back the same document_id, the sha256 of the bytes, and the same transaction
\* ids in the same order; neither the number of the call nor the order in which
\* the page workers completed enters an identifier.
C1_Determinism ==
    /\ \A a \in returned : a.document_id = <<"sha256", a.request.content>>
    /\ \A a, b \in returned : a.request = b.request => a.document_id = b.document_id /\ a.ids = b.ids
    /\ pc = "masked" => \A a \in returned : a.request = request =>
                            /\ a.document_id = doc_extracted.document_id
                            /\ a.ids = [i \in DOMAIN masked_txns |-> masked_txns[i].id]

\* A second run of a request has its transactions, with ids, after its page
\* workers completed out of page order; the first run handed its ids back.
C1_Witness ==
    /\ pc = "masked"
    /\ masked_txns # <<>>
    /\ Len(results_map) >= 2
    /\ results_map[1][1] > results_map[2][1]
    /\ \E a \in returned : a.request = request /\ ~a.cache_hit

\* C2: when the storage has the result of the document, process_pdf returns it
\* without extracting: in a call on a stored document no page worker starts and
\* no page result is produced or collected.
C2_ShortCircuit ==
    (pc \in {"extracting", "extracted"} /\ storage.present /\ <<"sha256", request.content>> \in DOMAIN storage.results)
        => /\ \A i \in DOMAIN status : status[i] = "pending"
           /\ page_data = <<>>
           /\ results_map = <<>>

\* amount = credit - debit with missing fields as zero; one of debit and credit
\* is non-null when the amount is non-zero, none when it is zero or absent.
SignInvariant(t) ==
    LET amount == IF IsDec(t.amount) THEN t.amount.v ELSE 0
        debit == IF IsDec(t.debit) THEN t.debit.v ELSE 0
        credit == IF IsDec(t.credit) THEN t.credit.v ELSE 0
    IN /\ amount = credit - debit
       /\ amount # 0 => (t.debit = None) # (t.credit = None)
       /\ amount = 0 => t.debit = None /\ t.credit = None

\* C3: every transaction of parse_transactions, and still of validate_statement
\* and of mask_pii, satisfies the amount sign invariant.
C3_AmountSign ==
    /\ \A i \in DOMAIN parsed_txns : SignInvariant(parsed_txns[i])
    /\ \A i \in DOMAIN validated_txns : SignInvariant(validated_txns[i])
    /\ \A i \in DOMAIN masked_txns : SignInvariant(masked_txns[i])

\* Masked transactions with a debit, with a credit and with a zero amount.
C3_Witness ==
    /\ pc = "masked"
    /\ \E i, j, l \in DOMAIN masked_txns :
          /\ IsDec(masked_txns[i].debit)
          /\ IsDec(masked_txns[j].credit)
          /\ masked_txns[l].amount = Dec(0)

\* The sum of the Decimal amounts of a list of transactions.
RECURSIVE SignedSum(_)
SignedSum(txns) == IF txns = <<>> THEN 0
                   ELSE (IF IsDec(Head(txns).amount) THEN Head(txns).amount.v ELSE 0) + SignedSum(Tail(txns))

\* C4: with an opening balance known (the supplied one, else the derived one),
\* expected_closing is opening_used plus the sum of all signed amounts, and with
\* a closing balance known too, balance_check_passed is true exactly when
\* expected_closing and closing_used differ by at most 0.02; with no opening
\* known, expected_closing and balance_check_passed are null.
C4_Reconciliation ==
    pc \in {"validated", "masked"} =>
        /\ IsDec(request.opening_balance) => summary.opening_balance_used = request.opening_balance
        /\ IsDec(summary.opening_balance_used) =>
              /\ summary.expected_closing = Dec(summary.opening_balance_used.v + SignedSum(parsed_txns))
              /\ IsDec(summary.closing_balance_used) =>
                    /\ summary.balance_check_passed \in {"true", "false"}
                    /\ summary.balance_check_passed = "true"
                          <=> /\ summary.expected_closing.v - summary.closing_balance_used.v <= 2 * (Unit \div 100)
                              /\ summary.closing_balance_used.v - summary.expected_closing.v <= 2 * (Unit \div 100)
        /\ ~IsDec(summary.opening_balance_used) =>
              /\ summary.expected_closing = None
              /\ summary.balance_check_passed = "null"

\* A statement of several rows passes the check with a delta of exactly 0.02.
C4_Witness ==
    /\ pc = "validated"
    /\ Len(validated_txns) >= 2
    /\ summary.balance_check_passed = "true"
    /\ summary.balance_check_delta = Dec(0 - 2 * (Unit \div 100))

\* The key of the duplicate detection as the specification states it: date,
\* whitespace-normalized lower-cased description, |amount| to the cent, currency.
StatedKey(t) ==
    <<t.date,
      IF IsStr(t.description) THEN Lower(Strip(CollapseSpaces(t.description.s), Whitespace)) ELSE <<>>,
      IF IsDec(t.amount) THEN <<Quantize(Abs(t.amount.v)).cents>> ELSE <<>>,
      t.currency>>

\* C5: validate_statement flags, with duplicate_of and in duplicates_found,
\* exactly the transactions whose key equals the key of an earlier one in sorted
\* order, never the first of a key; with drop_duplicates exactly the flagged
\* ones are removed, the first of each key survives, and duplicates_removed =
\* duplicates_found.
C5_Duplicates ==
    pc \in {"validated", "masked"} =>
        IF request.drop_duplicates
        THEN /\ \A i, j \in DOMAIN validated_txns : i # j => StatedKey(validated_txns[i]) # StatedKey(validated_txns[j])
             /\ \A i \in DOMAIN validated_txns : validated_txns[i].duplicate_of = None
             /\ {StatedKey(validated_txns[i]) : i \in DOMAIN validated_txns} = {StatedKey(parsed_txns[i]) : i \in DOMAIN parsed_txns}
             /\ \A i \in DOMAIN validated_txns : \A j \in DOMAIN parsed_txns :
                   (/\ StatedKey(parsed_txns[j]) = StatedKey(validated_txns[i])
                    /\ parsed_txns[j].page_index = validated_txns[i].page_index
                    /\ IsNum(parsed_txns[j].row_seq) /\ IsNum(validated_txns[i].row_seq))
                       => validated_txns[i].row_seq.v <= parsed_txns[j].row_seq.v
             /\ summary.duplicates_found = Len(parsed_txns) - Len(validated_txns)
             /\ summary.duplicates_removed = summary.duplicates_found
        ELSE /\ Len(validated_txns) = Len(parsed_txns)
             /\ \A i \in DOMAIN validated_txns :
                   IF \E j \in 1..(i - 1) : StatedKey(validated_txns[j]) = StatedKey(validated_txns[i])
                   THEN \E j \in 1..(i - 1) :
                           /\ StatedKey(validated_txns[j]) = StatedKey(validated_txns[i])
                           /\ \A l \in 1..(j - 1) : StatedKey(validated_txns[l]) # StatedKey(validated_txns[i])
                           /\ validated_txns[i].duplicate_of = [k |-> "ref", id |-> validated_txns[j].id]
                   ELSE validated_txns[i].duplicate_of = None
             /\ summary.duplicates_found = Cardinality({i \in DOMAIN validated_txns : validated_txns[i].duplicate_of # None})
             /\ summary.duplicates_removed = 0

\* Three transactions of one key, written differently, of which the first survives.
C5_Witness ==
    /\ pc = "validated"
    /\ request.drop_duplicates
    /\ Len(parsed_txns) = 3
    /\ Len(validated_txns) = 1
    /\ summary.duplicates_removed = 2
    /\ \E i, j \in DOMAIN parsed_txns : parsed_txns[i].description # parsed_txns[j].description

AcctTokens(s) ==
    {SubSeq(s, i, Find(s, ">", i)) : i \in {p \in DOMAIN s : OccursAt(s, <<"<", "A", "C", "C", "T", ":">>, p)}}

\* The account numbers of the sample statements.
SampleAccounts == {<<"0", "1", "2", "3", "4", "5", "6", "7", "8", "9">>, <<"9", "8", "7", "6", "5", "4", "3", "2", "1", "0">>}

\* The account number a description ends with.
AccountOf(description) == CHOOSE a \in SampleAccounts : OccursAt(description, a, Len(description) - Len(a) + 1)

HasAccount(t) == IsStr(t.description) /\ \E a \in SampleAccounts : OccursAt(t.description.s, a, Len(t.description.s) - Len(a) + 1)

\* C7: the same account number in two transactions is masked by the same token,
\* two different account numbers by different tokens, and the token ends with
\* the last 4 digits of the number.
C7_MaskingStability ==
    pc = "masked" =>
        \A i, j \in DOMAIN masked_txns :
            (HasAccount(validated_txns[i]) /\ HasAccount(validated_txns[j])) =>
                LET a == AccountOf(validated_txns[i].description.s)
                    b == AccountOf(validated_txns[j].description.s)
                    ti == AcctTokens(masked_txns[i].description.s)
                    tj == AcctTokens(masked_txns[j].description.s)
                IN /\ a = b => ti = tj
                   /\ a # b => ti \cap tj = {}
                   /\ \A t \in ti : SubSeq(t, Len(t) - 5, Len(t)) = <<":">> \o SubSeq(a, Len(a) - 3, Len(a)) \o <<">">>

\* C8: for a document with more pages than the page limit, extract processes
\* the first MAX_PAGES pages, logs the warning, and the pages_count of the
\* ExtractionResult is MAX_PAGES.
C8_PageLimit ==
    (PastExtract /\ request.content \in {"DocLong"} /\ Len(DocLong.pages) > config.MAX_PAGES) =>
        /\ Len(doc_extracted.page_texts) = config.MAX_PAGES
        /\ "pdf_pages_exceed_limit" \in log
        /\ doc_extracted.pages_count = config.MAX_PAGES

\* The scenario: the one-page statement processed with opening_balance = 10000.00.
Scenario == pc = "validated" /\ request.content = "DocScenario" /\ request.opening_balance = Dec(10000 * Unit)

\* C9 as stated: the scenario yields exactly 2 transactions, of -500.00 and
\* +10000.00, balance_check_passed = true and expected_closing = 19500.00.
C9_AsStated ==
    Scenario =>
        /\ [i \in DOMAIN validated_txns |-> validated_txns[i].amount] = <<Dec(0 - 500 * Unit), Dec(10000 * Unit)>>
        /\ summary.balance_check_passed = "true"
        /\ summary.expected_closing = Dec(19500 * Unit)

\* C9: the scenario yields exactly 3 transactions: the opening-only row, which
\* has a description, is kept with no amount, debit or credit, followed by the
\* transactions of -500.00 and +10000.00; balance_check_passed = true and
\* expected_closing = 19500.00.
C9_Scenario ==
    Scenario =>
        /\ [i \in DOMAIN validated_txns |-> validated_txns[i].amount] = <<None, Dec(0 - 500 * Unit), Dec(10000 * Unit)>>
        /\ validated_txns[1].description = Str(<<"O", "p", "e", "n", "i", "n", "g">>)
        /\ validated_txns[1].debit = None /\ validated_txns[1].credit = None
        /\ summary.transactions_count = 3
        /\ summary.balance_check_passed = "true"
        /\ summary.expected_closing = Dec(19500 * Unit)

C9_Witness == Scenario /\ validated_txns # <<>>

\* The data results_map holds for a page index.
CollectedFor(idx) == results_map[CHOOSE i \in DOMAIN results_map : results_map[i][1] = idx][2]

\* C10: whatever order the page workers completed in, the ExtractionResult
\* lists the texts, tables, words and image flags of the processed pages in
\* ascending page-index order, each processed page once, and the OCR pages
\* ascending.
C10_PageOrder ==
    PastExtract =>
        /\ {results_map[i][1] : i \in DOMAIN results_map} = 0..(Len(results_map) - 1)
        /\ DOMAIN doc_extracted.page_texts = DOMAIN results_map
        /\ DOMAIN doc_extracted.page_tables = DOMAIN results_map
        /\ DOMAIN doc_extracted.page_words = DOMAIN results_map
        /\ DOMAIN doc_extracted.image_based_pages = DOMAIN results_map
        /\ \A i \in DOMAIN results_map :
              /\ doc_extracted.page_texts[i] = CollectedFor(i - 1).text
              /\ doc_extracted.page_tables[i] = CollectedFor(i - 1).tables
              /\ doc_extracted.page_words[i] = CollectedFor(i - 1).words
              /\ doc_extracted.image_based_pages[i] = CollectedFor(i - 1).is_image_like
        /\ \A i, j \in DOMAIN doc_extracted.ocr_pages : i < j => doc_extracted.ocr_pages[i] < doc_extracted.ocr_pages[j]

\* extract has returned after the worker of a later page was collected first.
C10_Witness ==
    /\ pc = "extracted"
    /\ Len(results_map) >= 2
    /\ results_map[1][1] > results_map[2][1]

\* C11: at every moment of an extract run at most max(1, OCR_MAX_CONCURRENT)
\* page workers are inside the OCR section, whatever the size of the page pool.
C11_OcrThrottle ==
    /\ ocr_held = {i \in DOMAIN status : status[i] = "ocr"}
    /\ Cardinality(ocr_held) <= (IF config.OCR_MAX_CONCURRENT < 1 THEN 1 ELSE config.OCR_MAX_CONCURRENT)

\* Every permit is taken while a further worker of the pool, running on a
\* page that needs OCR, is kept out of the section.
C11_Witness ==
    /\ pc = "extracting"
    /\ Cardinality(ocr_held) = (IF config.OCR_MAX_CONCURRENT < 1 THEN 1 ELSE config.OCR_MAX_CONCURRENT)
    /\ config.PDF_MAX_WORKERS > Cardinality(ocr_held)
    /\ \E idx \in DOMAIN status :
          /\ status[idx] = "running"
          /\ NeedsOcr(Document(request.content).pages[idx + 1], <<>>)

\* The pages of the document of the current call.
PagesOfCall == Document(request.content).pages

\* C13: an exception raised while a single page is processed (opening the
\* page, text, table or word extraction, rendering or OCR) becomes an empty
\* value for that page: extract never raises, it returns a result with one
\* entry per page, and the text and tables of every other page are in it.
C13_DegradedExtraction ==
    /\ pc # "raised"
    /\ (pc = "extracted" /\ request.content \in {d.content : d \in ExtractDocs}) =>
          /\ Len(doc_extracted.page_texts) = Len(PagesOfCall)
          /\ \A i \in DOMAIN PagesOfCall :
                Raises(PagesOfCall[i]) = {} =>
                    /\ doc_extracted.page_tables[i] = TablesNorm(PagesOfCall[i])
                    /\ doc_extracted.page_texts[i] \in {PagesOfCall[i].text, PagesOfCall[i].ocr_text}
                    /\ doc_extracted.page_texts[i] # <<>>
          /\ \A i \in DOMAIN PagesOfCall :
                "tables" \in Raises(PagesOfCall[i]) => doc_extracted.page_tables[i] = <<>>

\* The rejection statuses whose case holds for a file and a password.
Applicable(file, password) ==
    {s \in {"ERROR_INVALID_TYPE", "ERROR_FILE_TOO_LARGE", "ERROR_PDF_LOAD_FAILED", "ERROR_ENCRYPTED",
            "ERROR_PASSWORD_INCORRECT", "ERROR_DECRYPTION_FAILED"} :
        \/ s = "ERROR_INVALID_TYPE" /\ LastN(Lower(file.path), 4) # <<".", "p", "d", "f">>
        \/ s = "ERROR_FILE_TOO_LARGE" /\ file.kind # "missing" /\ file.size.v > 20 * 1024 * 1024
        \/ s = "ERROR_PDF_LOAD_FAILED" /\ file.kind = "unreadable"
        \/ s = "ERROR_ENCRYPTED" /\ file.kind = "encrypted" /\ password \in {None, Str(<<>>)}
        \/ s = "ERROR_PASSWORD_INCORRECT" /\ file.kind = "encrypted" /\ password \notin {None, Str(<<>>), Str(FileKey)}
        \/ s = "ERROR_DECRYPTION_FAILED" /\ file.kind = "encrypted" /\ password = Str(FileKey) /\ ~file.rewritable}

\* C12: a file of the wrong type, an oversized file, an encrypted file with
\* no password, with a wrong password or whose decryption fails, and
\* unreadable bytes are each answered by process_pdf_file with the status of
\* one of the cases that hold, never by a raised exception, and the statement
\* processor is never invoked for them: nothing is extracted, returned by
\* the processor or persisted.
C12_InputRejection ==
    (intake # None /\ Applicable(intake.file, intake.password) # {}) =>
        /\ intake.stage \notin {"raised", "delegated", "analysed"}
        /\ intake.stage = "returned" => intake.result.status \in Applicable(intake.file, intake.password)
        /\ calls = 0 /\ pc = "idle" /\ request = None /\ returned = {}
        /\ doc_extracted = None /\ storage.results = <<>>

\* An encrypted file, the right password and a rewrite that fails: the
\* status is returned and no call of the processor has been made.
C12_Witness ==
    /\ intake # None /\ intake.stage = "returned"
    /\ intake.result.status = "ERROR_DECRYPTION_FAILED"
    /\ calls = 0

\* The parsers of the registry that say they support the fingerprint.
Supporting(fp) == {i \in DOMAIN parser_registry : supports(parser_registry[i], fp) = "true"}

\* The rows of the first supporting parser in registration order; none when
\* there is no such parser or its normalize_rows raises.
FirstSupportingRows ==
    IF Supporting(doc_fingerprint) = {} THEN <<>>
    ELSE LET first == CHOOSE i \in Supporting(doc_fingerprint) : \A j \in Supporting(doc_fingerprint) : i <= j
             r == parser_normalize_rows(parser_registry[first], doc_extracted)
         IN IF r.raised THEN <<>> ELSE r.rows

\* C14: the parser asked for rows is the first one in registration order
\* whose supports is true, a supports that raises being passed over.  When it
\* gives rows they are the rows of the call and the generic normalize_rows
\* does not run (no tier is entered, no metrics are written); when no parser
\* supports the document, or the parser gives no row or raises, the rows are
\* those of the generic normalize_rows.
C14_ParserSelection ==
    (doc_fingerprint # None /\ pc # "fingerprinted") =>
        IF FirstSupportingRows # <<>>
        THEN /\ pc \notin {"tier_tables", "tier_tokens", "tier_text"}
             /\ metrics = None
             /\ doc_rows = FirstSupportingRows
        ELSE /\ pc \in {"tier_tables", "tier_tokens", "tier_text"} \/ PastRows
             /\ PastRows => doc_rows = normalize_rows(doc_extracted, doc_fingerprint).rows

\* An OPAY statement and a registry where OPAY is registered before another
\* parser that supports the document too: the rows are OPAY's.
C14_Witness ==
    /\ pc = "rows_ready"
    /\ Len(parser_registry) >= 2
    /\ \E i, j \in DOMAIN parser_registry :
          /\ i < j
          /\ supports(parser_registry[i], doc_fingerprint) = "true"
          /\ supports(parser_registry[j], doc_fingerprint) = "true"
          /\ parser_registry[i] = "OPAY"
    /\ doc_rows = OpayRows(doc_extracted.page_tables)
    /\ doc_rows # <<>>

\* C15: once extract has returned, no later stage of the call (fingerprint,
\* registry parser, normalize_rows, parse_transactions, validate_statement,
\* mask_pii, the assembly of the result, the handoff to the storage) changes a
\* field of the ExtractionResult, its metadata map included: the fields stay
\* as extract set them and the metadata gains no "metrics" entry.
C15_ExtractionImmutable ==
    [][(PastExtract /\ PastExtract') => (doc_extracted' = doc_extracted /\ metrics' = metrics)]_vars

\* The NormalizedRow invariant of one row: with a debit and a credit the
\* amount is credit - debit; with only a debit it is its negation, with only a
\* credit the credit itself.
RowInvariant(r) ==
    /\ (IsDec(r.debit) /\ IsDec(r.credit)) => (IsDec(r.amount) /\ r.amount.v = r.credit.v - r.debit.v)
    /\ (IsDec(r.debit) /\ r.credit = None) => (IsDec(r.amount) /\ r.amount.v = 0 - r.debit.v)
    /\ (IsDec(r.credit) /\ r.debit = None) => (IsDec(r.amount) /\ r.amount.v = r.credit.v)

\* C16: every row normalize_rows returns, whatever the tier, has
\* amount = credit - debit when debit and credit are both present, and an
\* amount derived from the one of them that was read otherwise.
C16_RowInvariant ==
    (PastRows /\ metrics # None) => \A i \in DOMAIN doc_rows : RowInvariant(doc_rows[i])

\* The marks of a negative amount a text carries: enclosing parentheses, an
\* explicit minus sign before the digits, a DR suffix.
InParentheses(t) == \E i, j \in DOMAIN t : i < j /\ t[i] = "(" /\ t[j] = ")"

MinusBeforeDigits(t) == \E i \in DOMAIN t : t[i] = "-" /\ \A j \in 1..(i - 1) : ~IsDigit(t[j])

DrSuffix(t) == Len(t) >= 2 /\ Lower(SubSeq(t, Len(t) - 1, Len(t))) = <<"d", "r">>

\* C17: _parse_amount returns a negative value (zero for a zero amount) whenever
\* the text carries a mark of a negative amount, parentheses, a leading minus or
\* a DR suffix, alone or combined, a CR suffix changing nothing to that; without
\* any mark the value is not negative.
C17_AmountSignRecognition ==
    (unit_call # None /\ unit_call.method = "_parse_amount" /\ unit_call.returned /\ IsDec(unit_call.value)) =>
        IF InParentheses(unit_call.text.s) \/ MinusBeforeDigits(unit_call.text.s) \/ DrSuffix(unit_call.text.s)
        THEN unit_call.value.v <= 0
        ELSE unit_call.value.v >= 0

\* The transaction the builder made of the row a validated transaction comes
\* from (one table: page_index and row_seq name the row).
SourceOf(v) ==
    parsed_txns[CHOOSE j \in DOMAIN parsed_txns :
                    parsed_txns[j].page_index = v.page_index /\ parsed_txns[j].row_seq = v.row_seq]

\* C18: with an opening balance known, validate_statement gives a transaction
\* without an inline balance the opening used plus the amounts up to and
\* including its own in sorted order (stated on the calls that drop no
\* duplicate, whose output is the whole sorted list); an inline balance is never
\* changed; the transactions the caller passed in are still as the builder
\* returned them; with no opening known no balance is changed.
C18_BalanceBackfill ==
    pc = "validated" =>
        /\ parsed_txns = parse_transactions(doc_rows, doc_extracted.document_id, request.account_id)
        /\ \A i \in DOMAIN validated_txns :
              IF IsDec(SourceOf(validated_txns[i]).balance) \/ ~IsDec(summary.opening_balance_used)
              THEN validated_txns[i].balance = SourceOf(validated_txns[i]).balance
              ELSE /\ IsDec(validated_txns[i].balance)
                   /\ summary.duplicates_removed = 0 =>
                          validated_txns[i].balance.v = summary.opening_balance_used.v + SumAmounts(validated_txns, i)

\* A statement of three rows validated with an opening: the second transaction
\* had no balance and has one now, another one keeps its inline balance.
C18_Witness ==
    /\ pc = "validated"
    /\ IsDec(summary.opening_balance_used)
    /\ summary.duplicates_removed = 0
    /\ Len(validated_txns) = 3
    /\ ~IsDec(SourceOf(validated_txns[2]).balance) /\ IsDec(validated_txns[2].balance)
    /\ validated_txns[2].amount.v # 0 /\ validated_txns[1].amount.v # 0
    /\ \E j \in DOMAIN validated_txns : IsDec(SourceOf(validated_txns[j]).balance)

\* A row has a description that is not empty once normalized: some character
\* of it is neither white space nor one of - | :
HasDescription(row) == IsStr(row.description) /\ \E i \in DOMAIN row.description.s : row.description.s[i] \notin Whitespace \cup {"-", "|", ":"}

\* A row has a numeric value: a Decimal amount, debit, credit or balance (the
\* text of a cell is not one).
HasNumber(row) == IsDec(row.amount) \/ IsDec(row.debit) \/ IsDec(row.credit) \/ IsDec(row.balance)

\* The places of the rows that are not pure noise, in increasing order.
RECURSIVE KeptPlaces(_, _)
KeptPlaces(rows, i) ==
    IF i > Len(rows) THEN <<>>
    ELSE (IF HasDescription(rows[i]) \/ HasNumber(rows[i]) THEN <<i>> ELSE <<>>) \o KeptPlaces(rows, i + 1)

\* C19: parse_transactions drops exactly the rows with neither a non-empty
\* normalized description nor a numeric amount, debit, credit or balance, and
\* emits one transaction for every other row, in the order of the rows.
C19_BuilderFilterOrder ==
    (unit_call # None /\ unit_call.method = "parse_transactions" /\ unit_call.returned) =>
        /\ Len(unit_call.value) = Len(KeptPlaces(unit_call.rows, 1))
        /\ \A k \in DOMAIN unit_call.value : unit_call.value[k].raw = unit_call.rows[KeptPlaces(unit_call.rows, 1)[k]]

\* Three rows, a rule of dashes between a debit and a balance alone: two
\* transactions, the debit first.
C19_Witness ==
    /\ unit_call # None /\ unit_call.method = "parse_transactions" /\ unit_call.returned
    /\ Len(unit_call.rows) = 3 /\ Len(unit_call.value) = 2
    /\ IsDec(unit_call.rows[1].debit)
    /\ ~HasDescription(unit_call.rows[2]) /\ IsStr(unit_call.rows[2].description) /\ ~HasNumber(unit_call.rows[2])
    /\ unit_call.rows[3].description = None /\ IsDec(unit_call.rows[3].balance)
    /\ unit_call.value[1].raw = unit_call.rows[1] /\ unit_call.value[2].raw = unit_call.rows[3]

\* C20: validate_statement returns the transactions in ascending order of
\* (date, page_index, row_seq, description), the undated ones first, and the
\* key orders the transactions of the pipeline totally: whatever the order the
\* same transactions are passed in, the returned sequence, its backfilled
\* balances, its duplicate flags and the summary are the same.
C20_ReproducibleOrder ==
    (unit_call # None /\ unit_call.method = "validate_statement" /\ unit_call.returned) =>
        /\ \A i, j \in DOMAIN unit_call.value.txns :
              i < j => /\ ~KeyLess(sort_key(unit_call.value.txns[j]), sort_key(unit_call.value.txns[i]))
                       /\ IsDate(unit_call.value.txns[i].date) => IsDate(unit_call.value.txns[j].date)
        /\ \A other \in Permutations(DOMAIN unit_call.table) :
              validate_statement(Permuted(Produced(unit_call.table, unit_call.parser), other), unit_call.opening_balance,
                                 None, unit_call.drop_duplicates) = unit_call.value

\* C21: in one extract run OCR is applied to at most ocr_max_pages pages: the
\* applied_pages list of the extraction never holds more than ocr_max_pages
\* indices, with sequential and with parallel page workers.
C21_OcrPageCap ==
    doc_extracted # None => Len(doc_extracted.ocr_pages) <= config.OCR_MAX_PAGES

\* C22: two process_pdf calls on the same bytes with the same arguments,
\* interleaved in any way over has, get_result and persist (a reader may meet
\* a result.json that is only partly written): no call raises, every call
\* that has returned holds a result with the document_id of the bytes and the
\* transaction ids of a call running alone, and once all have returned
\* result.json exists and holds one complete result.
C22_LockFreeCache ==
    /\ \A r \in DOMAIN runs : runs[r].pc # "raised"
    /\ \A r \in DOMAIN runs :
          runs[r].pc = "returned" =>
             /\ runs[r].result.document_id = Sha256(runs[r].content)
             /\ Ids(runs[r].result.transactions) = Ids(Processed(Document(runs[r].content), runs[r].args).transactions)
    /\ (runs # <<>> /\ \A r \in DOMAIN runs : runs[r].pc = "returned") =>
          result_file = Written(Processed(Document(runs[1].content), runs[1].args))

\* Both calls have returned results with transactions, one of them after its
\* get_result met a partly written result.json and it processed in full.
C22_Witness ==
    /\ runs # <<>>
    /\ \A r \in DOMAIN runs : runs[r].pc = "returned" /\ runs[r].result.transactions # <<>>
    /\ \E r \in DOMAIN runs : runs[r].get_failed
    /\ Complete(result_file)

\* C23: the transaction ids of a result are unique: no two transactions of
\* the list process_pdf returns with drop_duplicates=false have the same id,
\* also when two rows of one page show the same date, description and amount.
C23_UniqueIds ==
    (pc = "masked" /\ ~request.drop_duplicates) =>
        \A i, j \in DOMAIN Result.transactions : i # j => Result.transactions[i].id # Result.transactions[j].id

\* C24: the cache is keyed by the document alone.  A call that finds
\* result.json (has is true) tries get_result; when get_result succeeds the
\* call returns the stored result unchanged, whatever account_id, balances and
\* drop_duplicates it was given, and neither writes result.json nor logs
\* pdf_persisted; when get_result raises the call processes in full, and a
\* call that did so returns the result of its own arguments after persisting it.
C24_KeyedByDocument ==
    /\ [][\A r \in DOMAIN runs :
             runs'[r] # runs[r] =>
                /\ (runs[r].pc = "extracted" /\ result_file.exists) => runs'[r].pc = "hit"
                /\ (runs[r].pc = "hit" /\ Complete(result_file)) =>
                       /\ runs'[r].pc = "returned"
                       /\ runs'[r].result = result_file.chunks[1][2]
                       /\ runs'[r].log = {"pdf_cache_hit"}
                       /\ result_file' = result_file
                /\ (runs[r].pc = "hit" /\ ~Complete(result_file)) => runs'[r].pc = "computing"]_vars
    /\ [](\A r \in DOMAIN runs :
             (runs[r].pc = "returned" /\ runs[r].get_failed) =>
                /\ runs[r].result = Processed(Document(runs[r].content), runs[r].args)
                /\ runs[r].log = {"pdf_persisted"}
                /\ runs[r].pos = FileChunks)

\* A call was answered from result.json with transaction ids that are not
\* those of its own arguments, and the other call had to process in full
\* after its get_result raised.
C24_Witness ==
    /\ runs # <<>>
    /\ \E r, q \in DOMAIN runs :
          /\ runs[r].pc = "returned" /\ "pdf_cache_hit" \in runs[r].log
          /\ Ids(runs[r].result.transactions) # Ids(Processed(Document(runs[r].content), runs[r].args).transactions)
          /\ runs[q].pc = "returned" /\ runs[q].get_failed

\* C25: the summary of validate_statement agrees with the list it returns,
\* also when drop_duplicates removed transactions: transactions_count is the
\* length of the list, sum_amount the sum of its amounts, and expected_closing
\* the opening used plus that sum.
C25_SummaryAgrees ==
    (unit_call # None /\ unit_call.method = "validate_statement" /\ unit_call.returned) =>
        LET txns == unit_call.value.txns
            s == unit_call.value.summary
        IN /\ s.transactions_count = Len(txns)
           /\ s.sum_amount = Dec(SignedSum(txns))
           /\ IsDec(s.opening_balance_used) => s.expected_closing = Dec(s.opening_balance_used.v + SignedSum(txns))

\* C26: the rows of an institution-specific parser are built into
\* transactions like generic rows: for a document fingerprinted as OPAY whose
\* rows the OPAY parser supplied, a row whose amount cell reads as an amount
\* yields a transaction with that decimal amount, and a row whose date cell
\* reads as a date yields a transaction with the parsed date.
C26_TemplateRowsBuilt ==
    (/\ pc \in {"parsed", "validated", "masked"}
     /\ select(parser_registry, doc_fingerprint) = "OPAY"
     /\ doc_rows # <<>>
     /\ doc_rows = TemplateRows("OPAY", doc_extracted)) =>
        /\ Len(parsed_txns) = Len(doc_rows)
        /\ \A i \in DOMAIN parsed_txns :
              LET raw == parsed_txns[i].raw
              IN /\ (IsStr(raw.amount) /\ IsDec(_parse_amount(raw.amount, None))) =>
                       parsed_txns[i].amount = _parse_amount(raw.amount, None)
                 /\ (IsStr(raw.date) /\ IsDate(_parse_date(raw.date))) =>
                       parsed_txns[i].date = _parse_date(raw.date)

\* The str leaves of a result: the anchors of the fingerprint and, for every
\* transaction, the description and the leaves of raw.
ResultStrings(result) ==
    UNION {Range(result.fingerprint.anchors[a]) : a \in DOMAIN result.fingerprint.anchors}
    \cup {result.transactions[i].description : i \in DOMAIN result.transactions}
    \cup UNION {{result.transactions[i].raw[f] : f \in DOMAIN result.transactions[i].raw \ {"source"}} : i \in DOMAIN result.transactions}

\* C27: no raw account identifier leaves the pipeline: in the result that
\* process_pdf returns and hands to persist, no account number or BVN of the
\* document stands unmasked in any field, the anchors of the fingerprint
\* included.
C27_NoRawIdentifier ==
    pc = "masked" =>
        \A x \in ResultStrings(Result), ident \in {AccountNumber, BvnNumber} :
            IsStr(x) => ~Contains(x.s, ident)

\* C28: the OCR process pool is created at most once per processor: however
\* the page workers interleave in the OCR section, no second
\* ProcessPoolExecutor is constructed, so that every OCR job goes to the one
\* pool.
C28_OnePool ==
    /\ Len(pools_built) <= 1
    /\ \A k \in DOMAIN pools_built : k # 1 => pools_built[k] = {}

\* C29: extraction always finishes and releases its OCR permits: whatever
\* OCR attempts fail, every page worker that entered the OCR section leaves
\* it, extract returns, no permit is held when it has returned, and a page
\* whose OCR attempt failed keeps the text of its text layer and is not among
\* ocr_pages.
C29_ExtractFinishes ==
    /\ (pc = "extracting") ~> (pc = "extracted")
    /\ \A idx \in OcrPageIndices : (idx \in ocr_held) ~> (idx \notin ocr_held /\ idx \notin DOMAIN ocr_section)
    /\ [](pc = "extracted" =>
            /\ ocr_held = {}
            /\ ocr_section = <<>>
            /\ LET pages == Document(request.content).pages
               IN \A i \in DOMAIN pages :
                     OcrFails(pages[i]) => /\ doc_extracted.page_texts[i] = PageData(pages[i], FALSE).text
                                           /\ \A k \in DOMAIN doc_extracted.ocr_pages : doc_extracted.ocr_pages[k] # i - 1)

\* extract has returned for the scan whose second page failed in the OCR
\* pool: the page kept its text, the first page was read by OCR.
C29_Witness ==
    /\ pc = "extracted"
    /\ request.content = DocFaint.content
    /\ config.OCR_MAX_CONCURRENT >= 2
    /\ pools_built # <<>>
    /\ ocr_held = {}
    /\ doc_extracted.page_texts[2] = <<" ">>
    /\ doc_extracted.ocr_pages = <<0>>

\* C30: column bands split on gaps of at least 15pt: two header words whose
\* consecutive sorted midpoints are at least 15pt apart lie in different
\* bands and two that are closer lie in the same band; the bands are
\* pairwise disjoint and in increasing order, and every word is placed in at
\* most one column.
C30_BandsSplitAtGap ==
    (unit_call # None /\ unit_call.method = "infer_column_bands" /\ unit_call.returned) =>
        LET bands == unit_call.value
            mids == SortInts([i \in DOMAIN unit_call.tokens |-> Mid2(unit_call.tokens[i])])
        IN /\ \A i \in 1..(Len(mids) - 1) :
                 (mids[i + 1] - mids[i] >= 2 * GAP_SPLIT) <=> (BandFrom(bands, mids[i], 1) # BandFrom(bands, mids[i + 1], 1))
           /\ \A i \in 1..(Len(bands) - 1) : bands[i][2] < bands[i + 1][1]
           /\ \A i \in DOMAIN bands : bands[i][1] <= bands[i][2]
           /\ \A k \in DOMAIN unit_call.tokens :
                 Cardinality({i \in DOMAIN bands : \E j \in DOMAIN unit_call.columns[i] :
                                  unit_call.columns[i][j] = unit_call.tokens[k]}) <= 1

====
